---------------------------- MODULE Spec2Model ----------------------------
(***************************************************************************)
(* Tier-based HTTP rate limiter (Effect / Supabase / Redis).               *)
(*                                                                         *)
(* The model follows one user row of the user store, the counter keys of   *)
(* that user in Redis, the wall clock, and the requests in flight.  Every  *)
(* request is cut at its suspension points: the user-store query, the      *)
(* EVAL of the INCR+EXPIRE script, and the TTL read of the exceeded path.  *)
(* One wall clock is shared by the servers and by Redis.                   *)
(***************************************************************************)
EXTENDS Integers, Sequences, FiniteSets, TLC

(***************************************************************************)
(* Bounds of the model.                                                    *)
(***************************************************************************)
NumProcs == 2          \* request handlers that can be in flight together
MaxChecks == 12        \* /api/check requests started in one behaviour
MaxWrites == 1         \* changes of the user row in one behaviour

Procs == 1..NumProcs

(***************************************************************************)
(* Program constants.                                                      *)
(***************************************************************************)
FreeRequests == 10
FreeWindowSeconds == 60
PremiumRequests == 100
PremiumWindowSeconds == 60
MillisPerSecond == 1000

\* The wall-clock instants (ms since the epoch origin of the model) that
\* the clock visits; each later instant can follow each earlier one.
Instants == {0, 500, 60000, 60500}

UserId == "u1"

(***************************************************************************)
(* JavaScript values of the nullable columns of a user row.  The row is    *)
(* the JSON object the user-store driver hands back: an integer column is  *)
(* a number or null, the timestamptz column is an ISO-8601 string or null. *)
(* A Date only exists where the code builds one with `new Date(...)`.      *)
(***************************************************************************)
JsNull == [t |-> "null", v |-> 0]
JsNum(n) == [t |-> "num", v |-> n]
JsStr(i) == [t |-> "str", v |-> i]      \* ISO string that denotes instant i
JsDate(i) == [t |-> "date", v |-> i]    \* Date object for instant i

NotNull(x) == x.t # "null"              \* x != null
Truthy(x) == x.t \in {"str", "date"} \/ (x.t = "num" /\ x.v # 0)
HasGetTime(x) == x.t = "date"           \* x.getTime is a function
NewDate(x) == IF x.t = "str" THEN JsDate(x.v) ELSE x

JsNaN == [t |-> "nan", v |-> 0]
JsText(s) == [t |-> "text", v |-> s]    \* a string, as its sequence of characters

DigitChars == <<"0", "1", "2", "3", "4", "5", "6", "7", "8", "9">>

IsDigit(c) == \E d \in 1..10 : DigitChars[d] = c
DigitValue(c) == (CHOOSE d \in 1..10 : DigitChars[d] = c) - 1

RECURSIVE NatToString(_)
NatToString(n) ==
    IF n < 10 THEN <<DigitChars[n + 1]>>
    ELSE NatToString(n \div 10) \o <<DigitChars[(n % 10) + 1]>>

\* Number.prototype.toString() of an integer; also the reply of GET for an
\* integer-valued key
NumberToString(n) == IF n < 0 THEN <<"-">> \o NatToString(0 - n) ELSE NatToString(n)

\* Variant of the digits read: the first digit alone.
FirstDigit(str, acc) == DigitValue(Head(str))

\* the value of the longest prefix of digits of str, read after acc
RECURSIVE LeadingDigits(_, _)
LeadingDigits(str, acc) ==
    IF str = << >> \/ ~IsDigit(Head(str)) THEN acc
    ELSE LeadingDigits(Tail(str), acc * 10 + DigitValue(Head(str)))

\* parseInt(str, 10): an optional sign, then the leading digits; NaN when
\* there is no digit
ParseInt(str) ==
    LET neg == str # << >> /\ Head(str) = "-"
        rest == IF neg THEN Tail(str) ELSE str
    IN IF rest = << >> \/ ~IsDigit(Head(rest)) THEN JsNaN
       ELSE JsNum(IF neg THEN 0 - LeadingDigits(rest, 0) ELSE LeadingDigits(rest, 0))

\* const rateLimitConfigData: RateLimitConfig
rateLimitConfigData ==
    [free |-> [requests |-> FreeRequests, windowSeconds |-> FreeWindowSeconds],
     premium |-> [requests |-> PremiumRequests, windowSeconds |-> PremiumWindowSeconds]]

ConfigTiers == {"free", "premium"}

ConfigOf(tier) ==
    IF tier = "free" THEN rateLimitConfigData.free ELSE rateLimitConfigData.premium

(***************************************************************************)
(* Outcome of the "Determine Applicable Limit" block.                      *)
(***************************************************************************)
Resolved(l, w, o) ==
    [tag |-> "ok", limit |-> l, windowSeconds |-> w, overrideActive |-> o]
Failed(tag) ==
    [tag |-> tag, limit |-> 0, windowSeconds |-> 0, overrideActive |-> FALSE]

\* if (windowSeconds <= 0) fail RateLimitConfigError
WindowGuard(r) ==
    IF r.tag = "ok" /\ r.windowSeconds <= 0 THEN Failed("ConfigError") ELSE r

\* const tierConfig = config[user.tier]; if (!tierConfig) fail
\* (for a tier that is no inherited property name of the object)
TierLimit(tier) ==
    IF tier \in ConfigTiers
    THEN Resolved(ConfigOf(tier).requests, ConfigOf(tier).windowSeconds, FALSE)
    ELSE Failed("ConfigError")

\* A property name that the configuration object, an object literal,
\* inherits from Object.prototype: config[tier] is then a value that is
\* truthy and has neither `requests` nor `windowSeconds`.
InheritedKeys == {"constructor"}

\* the tier lookup of checkRateLimit: with an inherited property both
\* values are undefined, `undefined <= 0` is false, and
\* windowSeconds.toString() throws before the EVAL is sent
CheckTierLimit(tier) ==
    IF tier \in InheritedKeys THEN Failed("TypeError") ELSE TierLimit(tier)

\* the comparison user.override_limit_expiry.getTime() > nowMillis
ExpiryLater(expiryMillis, nowMillis) == expiryMillis > nowMillis

(***************************************************************************)
(* checkRateLimit, "Determine Applicable Limit": the user argument is the  *)
(* row as checkRateLimitHandler passes it (`userData as User`, a cast      *)
(* without decoding).  Calling getTime on a value that is no Date throws a *)
(* TypeError, which ends the request as a defect.                          *)
(***************************************************************************)
CheckElseBranch(user) ==
    IF Truthy(user.override_limit_expiry) /\ ~HasGetTime(user.override_limit_expiry)
    THEN Failed("TypeError")
    ELSE CheckTierLimit(user.tier)

CheckResolve(user, nowMillis) ==
    WindowGuard(
      IF /\ NotNull(user.override_limit_requests)
         /\ NotNull(user.override_limit_window_seconds)
         /\ NotNull(user.override_limit_expiry)
      THEN IF ~HasGetTime(user.override_limit_expiry)
           THEN Failed("TypeError")
           ELSE IF ExpiryLater(user.override_limit_expiry.v, nowMillis)
                THEN Resolved(user.override_limit_requests.v,
                              user.override_limit_window_seconds.v, TRUE)
                ELSE CheckElseBranch(user)
      ELSE CheckElseBranch(user))

(***************************************************************************)
(* testCombinedLogicHandler, step 3: the same block, on the row converted  *)
(* with `new Date(userData.override_limit_expiry)`.                        *)
(***************************************************************************)
StatsResolve(userData, nowMillis) ==
    LET overrideExpiry == IF Truthy(userData.override_limit_expiry)
                          THEN NewDate(userData.override_limit_expiry)
                          ELSE JsNull
    IN WindowGuard(
         IF /\ NotNull(userData.override_limit_requests)
            /\ NotNull(userData.override_limit_window_seconds)
            /\ overrideExpiry.t = "date"
            /\ ExpiryLater(overrideExpiry.v, nowMillis)
         THEN Resolved(userData.override_limit_requests.v,
                       userData.override_limit_window_seconds.v, TRUE)
         ELSE TierLimit(userData.tier))

\* Math.floor(nowMillis / 1000)
NowSeconds(nowMillis) == nowMillis \div MillisPerSecond

\* Variants of the bucket start: the bucket index, and the end of the bucket.
WindowIndex(nowMillis, windowSeconds) == NowSeconds(nowMillis) \div windowSeconds
WindowEndSeconds(nowMillis, windowSeconds) ==
    ((NowSeconds(nowMillis) \div windowSeconds) + 1) * windowSeconds

\* Variant of the bucket start: the milliseconds taken as seconds.
WindowStartOfMillis(nowMillis, windowSeconds) ==
    (nowMillis \div windowSeconds) * windowSeconds

\* Math.floor(nowSeconds / windowSeconds) * windowSeconds
WindowStartSeconds(nowMillis, windowSeconds) ==
    (NowSeconds(nowMillis) \div windowSeconds) * windowSeconds

\* `rate_limit:${user.id}:${windowStartSeconds}`
RedisKey(userId, windowStartSeconds) == <<"rate_limit", userId, windowStartSeconds>>

\* the same key as the characters of the template string: the number is
\* written in decimal
RedisKeyText(userId, windowStartSeconds) ==
    <<"rate_limit", ":", userId, ":">> \o NumberToString(windowStartSeconds)


(***************************************************************************)
(* The rows the user store holds for the user.  UserRows are the rows of    *)
(* the behaviours with requests in flight: a tier without an override, or  *)
(* the free tier with a complete override.  AllRows are the rows the       *)
(* columns admit (tier: text; the override columns: integer or NULL,       *)
(* timestamptz or NULL), on which the limit resolution is explored.        *)
(***************************************************************************)
OverrideExpiry == 90000     \* an override_limit_expiry instant (ms)

Row(tier, requests, window, expiry) ==
    [tier |-> tier, override_limit_requests |-> requests,
     override_limit_window_seconds |-> window, override_limit_expiry |-> expiry]

FreeRow == Row("free", JsNull, JsNull, JsNull)

UserRows ==
    {Row(t, JsNull, JsNull, JsNull) : t \in ConfigTiers}
      \cup {Row("free", JsNum(2), JsNum(30), JsStr(OverrideExpiry))}

AllRows ==
    {Row(t, r, w, e) :
        t \in ConfigTiers \cup {"gold"},
        r \in {JsNull, JsNum(0), JsNum(2)},
        w \in {JsNull, JsNum(0), JsNum(30)},
        e \in {JsNull, JsStr(OverrideExpiry)}}

\* the instants at which the limit resolution is explored
ResolverInstants == {0, OverrideExpiry - 1, OverrideExpiry, OverrideExpiry + 1}

VARIABLES
    clock,          \* the wall clock, in ms (Date.now())
    user,           \* the row of UserId in the user store (JsNull: no row)
    redis,          \* the counter store: live key -> entry
    pc,             \* where each request handler stands
    loc,            \* the locals of each request handler
    nchecks,        \* requests started so far
    nwrites,        \* changes of the user row so far
    bucket,         \* history: per key, the checks the store ran inside the bucket
    lastDecision,   \* history: how the latest check ended
    lastStats,      \* history: how the latest stats request ended
    updatedAt,      \* the updated_at column of the row (ms)
    lastUpdate      \* history: how the latest override write ended

vars == <<clock, user, redis, pc, loc, nchecks, nwrites, bucket, lastDecision,
          lastStats, updatedAt, lastUpdate>>

\* the row local of a handler that holds no row
NoRow == Row("", JsNull, JsNull, JsNull)

NoLoc == [row |-> NoRow, now |-> 0, ws |-> 0, limit |-> 0, win |-> 0,
          count |-> 0, first |-> FALSE, prior |-> 0, ovr |-> FALSE]

NoDecision ==
    [status |-> "none", row |-> NoRow, now |-> 0, ws |-> 0, limit |-> 0, win |-> 0,
     count |-> 0, retryAfter |-> 0, first |-> FALSE, prior |-> 0, ttl |-> 0]

NoStats ==
    [status |-> "none", row |-> NoRow, now |-> 0, ws |-> 0, limit |-> 0, win |-> 0,
     currentCount |-> 0, secondsUntilReset |-> 0, overrideActive |-> FALSE]

NoBucket == [evals |-> 0, allowed |-> 0, params |-> {}]

NoUpdate == [status |-> "none", raw |-> JsNull, now |-> 0, before |-> JsNull,
             after |-> JsNull]

BucketOf(ws) == IF ws \in DOMAIN bucket THEN bucket[ws] ELSE NoBucket

(***************************************************************************)
(* The counter store.  An entry is [count, expireAt] (expireAt in ms, -1   *)
(* for a key without expiry); `window` and `deniedMax` are history: the    *)
(* TTL argument the key was created with, and the largest limit a check on *)
(* this entry was over (0: none).  A key is removed as soon as the clock   *)
(* reaches its expireAt (see Tick).                                        *)
(***************************************************************************)
NoExpiry == -1

\* redis.call('INCR', KEYS[1]): the value after the increment
IncrResult(store, key) ==
    IF key \in DOMAIN store THEN store[key].count + 1 ELSE 1

\* Variants of the expiry: the TTL argument taken as milliseconds (PEXPIRE),
\* and the expiry renewed by every increment.
ExpireMillis(store, key, ttlSeconds, nowMillis) ==
    IF IncrResult(store, key) = 1
    THEN nowMillis + ttlSeconds
    ELSE store[key].expireAt
ExpireAlways(store, key, ttlSeconds, nowMillis) ==
    nowMillis + ttlSeconds * MillisPerSecond

\* Variant of the expiry: one second short of the window.
ExpireShort(store, key, ttlSeconds, nowMillis) ==
    IF IncrResult(store, key) = 1
    THEN nowMillis + (ttlSeconds - 1) * MillisPerSecond
    ELSE store[key].expireAt

\* Variant of the expiry: the script without its EXPIRE call.
ExpireNever(store, key, ttlSeconds, nowMillis) ==
    IF key \in DOMAIN store THEN store[key].expireAt ELSE NoExpiry

\* if tonumber(current_count) == 1 then redis.call('EXPIRE', KEYS[1], ARGV[1]) end
ExpireAfterIncr(store, key, ttlSeconds, nowMillis) ==
    IF IncrResult(store, key) = 1
    THEN nowMillis + ttlSeconds * MillisPerSecond
    ELSE store[key].expireAt

\* Variant of the script as two commands of the client: the INCR has run,
\* the EXPIRE is still to be sent.
incrCommand(store, key, ttlSeconds, nowMillis, limit) ==
    [k \in DOMAIN store \cup {key} |->
        IF k = key
        THEN [count |-> IncrResult(store, key),
              expireAt |-> IF key \in DOMAIN store THEN store[key].expireAt
                           ELSE NoExpiry,
              window |-> IF key \in DOMAIN store THEN store[key].window
                         ELSE ttlSeconds,
              deniedMax |-> IF key \in DOMAIN store THEN store[key].deniedMax
                            ELSE 0]
        ELSE store[k]]

\* Variant of the script: a request over the limit is not counted.
incrUnlessOver(store, key, ttlSeconds, nowMillis, limit) ==
    IF IncrResult(store, key) > limit THEN store
    ELSE [k \in DOMAIN store \cup {key} |->
            IF k = key
            THEN [count |-> IncrResult(store, key),
                  expireAt |-> ExpireAfterIncr(store, key, ttlSeconds, nowMillis),
                  window |-> IF key \in DOMAIN store THEN store[key].window
                             ELSE ttlSeconds,
                  deniedMax |-> IF key \in DOMAIN store THEN store[key].deniedMax
                                ELSE 0]
            ELSE store[k]]

\* incrWithExpireScript, run by Redis as one command: the store after it
incrWithExpireScript(store, key, ttlSeconds, nowMillis, limit) ==
    LET n == IncrResult(store, key)
        old == IF key \in DOMAIN store THEN store[key]
               ELSE [count |-> 0, expireAt |-> NoExpiry, window |-> ttlSeconds,
                     deniedMax |-> 0]
    IN [k \in DOMAIN store \cup {key} |->
          IF k = key
          THEN [count |-> n,
                expireAt |-> ExpireAfterIncr(store, key, ttlSeconds, nowMillis),
                window |-> old.window,
                deniedMax |-> IF n > limit /\ limit > old.deniedMax
                              THEN limit ELSE old.deniedMax]
          ELSE store[k]]

\* redisClient.ttl(key): seconds left (rounded as Redis does), -1, or -2
Ttl(store, key, nowMillis) ==
    IF key \notin DOMAIN store THEN -2
    ELSE IF store[key].expireAt = NoExpiry THEN -1
    ELSE (store[key].expireAt - nowMillis + 500) \div MillisPerSecond

\* Redis drops a key whose expiry instant has been reached
\* Variant of the expiry of the store: no key is ever deleted.
ExpiredNone(store, nowMillis) == {}

Expired(store, nowMillis) ==
    {k \in DOMAIN store :
        store[k].expireAt # NoExpiry /\ store[k].expireAt <= nowMillis}

\* Variants of the comparison, as a slip would write it.
OverLimitPlusOne(currentCount, limit) == currentCount > limit + 1
OverLimitGeq(currentCount, limit) == currentCount >= limit
OverLimitExact(currentCount, limit) == currentCount = limit + 1

\* if (currentCount > limit) ... RateLimited ... else Allowed
OverLimit(currentCount, limit) == currentCount > limit

\* Variant of the fallback: the TTL reply forwarded as it is.
RetryAfterRaw(ttl, windowSeconds) == ttl

\* Variant of the fallback: a negative TTL gives 0.
RetryAfterZero(ttl, windowSeconds) == IF ttl >= 0 THEN ttl ELSE 0

\* const retryAfter = ttl >= 0 ? ttl : windowSeconds
RetryAfter(ttl, windowSeconds) == IF ttl >= 0 THEN ttl ELSE windowSeconds

\* the wall clock is inside the bucket [ws, ws + win) of a key
InBucket(ws, win, nowMillis) ==
    /\ ws * MillisPerSecond <= nowMillis
    /\ nowMillis < (ws + win) * MillisPerSecond

Init ==
    /\ clock = 0
    /\ user \in UserRows
    /\ redis = << >>
    /\ pc = [p \in Procs |-> "idle"]
    /\ loc = [p \in Procs |-> NoLoc]
    /\ nchecks = 0
    /\ nwrites = 0
    /\ bucket = << >>
    /\ lastDecision = NoDecision
    /\ lastStats = NoStats
    /\ updatedAt = 0
    /\ lastUpdate = NoUpdate

\* Variant of step 1: the answer of the query is not tested for null.
FetchUserUnchecked(p) ==
    /\ pc[p] = "idle"
    /\ nchecks < MaxChecks
    /\ nchecks' = nchecks + 1
    /\ loc' = [loc EXCEPT ![p] =
                 [NoLoc EXCEPT !.row = IF user = JsNull THEN NoRow ELSE user]]
    /\ pc' = [pc EXCEPT ![p] = "fetched"]
    /\ UNCHANGED <<clock, user, redis, nwrites, bucket, lastDecision, lastStats, updatedAt,
                   lastUpdate>>

(***************************************************************************)
(* checkRateLimitHandler, step 1: the user-store query answers with the    *)
(* row, or with null when no row matches (maybeSingle): NotFoundError.     *)
(***************************************************************************)
FetchUser(p) ==
    /\ pc[p] = "idle"
    /\ nchecks < MaxChecks
    /\ nchecks' = nchecks + 1
    /\ IF user = JsNull
       THEN /\ lastDecision' = [NoDecision EXCEPT !.status = "NotFoundError"]
            /\ UNCHANGED <<loc, pc>>
       ELSE /\ loc' = [loc EXCEPT ![p] = [NoLoc EXCEPT !.row = user]]
            /\ pc' = [pc EXCEPT ![p] = "fetched"]
            /\ UNCHANGED lastDecision
    /\ UNCHANGED <<clock, user, redis, nwrites, bucket, lastStats, updatedAt,
                   lastUpdate>>

(***************************************************************************)
(* checkRateLimit up to the EVAL being sent: Date.now(), the applicable    *)
(* limit, the key.  A failure ends the request without a store command.    *)
(***************************************************************************)
CheckBegin(p) ==
    /\ pc[p] = "fetched"
    /\ LET r == CheckResolve(loc[p].row, clock)
       IN IF r.tag = "ok"
          THEN /\ loc' = [loc EXCEPT ![p] =
                            [@ EXCEPT !.now = clock,
                                      !.ws = WindowStartSeconds(clock, r.windowSeconds),
                                      !.limit = r.limit,
                                      !.win = r.windowSeconds]]
               /\ pc' = [pc EXCEPT ![p] = "evalSent"]
               /\ UNCHANGED lastDecision
          ELSE /\ lastDecision' = [NoDecision EXCEPT !.status = r.tag,
                                                     !.row = loc[p].row,
                                                     !.now = clock]
               /\ loc' = [loc EXCEPT ![p] = NoLoc]
               /\ pc' = [pc EXCEPT ![p] = "idle"]
    /\ UNCHANGED <<clock, user, redis, nchecks, nwrites, bucket, lastStats, updatedAt,
                   lastUpdate>>

(***************************************************************************)
(* Redis runs the script; the handler compares the count with the limit:   *)
(* Allowed ends the request, otherwise the TTL read is sent.               *)
(***************************************************************************)
RedisEval(p) ==
    /\ pc[p] = "evalSent"
    /\ LET l == loc[p]
           key == RedisKey(UserId, l.ws)
           n == IncrResult(redis, key)
           inb == InBucket(l.ws, l.win, clock)
           b == BucketOf(l.ws)
           prior == IF key \in DOMAIN redis THEN redis[key].deniedMax ELSE 0
           over == OverLimit(n, l.limit)
       IN /\ redis' = incrWithExpireScript(redis, key, l.win, clock, l.limit)
          /\ bucket' = IF inb
                       THEN [w \in DOMAIN bucket \cup {l.ws} |->
                               IF w = l.ws
                               THEN [b EXCEPT !.evals = @ + 1,
                                              !.allowed = IF over THEN @ ELSE @ + 1,
                                              !.params = @ \cup {<<l.limit, l.win>>}]
                               ELSE bucket[w]]
                       ELSE bucket
          /\ IF over
             THEN /\ loc' = [loc EXCEPT ![p] =
                               [@ EXCEPT !.row = NoRow, !.now = 0, !.count = n,
                                         !.first = inb /\ b.evals = 0,
                                         !.prior = prior]]
                  /\ pc' = [pc EXCEPT ![p] = "ttlSent"]
                  /\ UNCHANGED lastDecision
             ELSE /\ lastDecision' =
                        [NoDecision EXCEPT !.status = "Allowed", !.ws = l.ws,
                                           !.limit = l.limit, !.win = l.win,
                                           !.count = n,
                                           !.first = inb /\ b.evals = 0,
                                           !.prior = prior]
                  /\ loc' = [loc EXCEPT ![p] = NoLoc]
                  /\ pc' = [pc EXCEPT ![p] = "idle"]
    /\ UNCHANGED <<clock, user, nchecks, nwrites, lastStats, updatedAt,
                   lastUpdate>>

(***************************************************************************)
(* Redis answers the TTL read; the handler returns RateLimited.            *)
(***************************************************************************)
RedisTtl(p) ==
    /\ pc[p] = "ttlSent"
    /\ LET l == loc[p]
           ttl == Ttl(redis, RedisKey(UserId, l.ws), clock)
       IN lastDecision' =
                [NoDecision EXCEPT !.status = "RateLimited", !.ws = l.ws,
                                   !.limit = l.limit, !.win = l.win,
                                   !.count = l.count,
                                   !.first = l.first, !.prior = l.prior,
                                   !.ttl = ttl,
                                   !.retryAfter = RetryAfter(ttl, l.win)]
    /\ loc' = [loc EXCEPT ![p] = NoLoc]
    /\ pc' = [pc EXCEPT ![p] = "idle"]
    /\ UNCHANGED <<clock, user, redis, nchecks, nwrites, bucket, lastStats, updatedAt,
                   lastUpdate>>

(***************************************************************************)
(* Time passes; keys whose expiry instant is reached are gone.             *)
(***************************************************************************)
Tick ==
    /\ \E t \in Instants :
         /\ t > clock
         /\ clock' = t
         /\ redis' = [k \in DOMAIN redis \ Expired(redis, t) |-> redis[k]]
    /\ UNCHANGED <<user, pc, loc, nchecks, nwrites, bucket, lastDecision, lastStats, updatedAt,
                   lastUpdate>>

(***************************************************************************)
(* The user store is owned outside the core: the row of the user changes   *)
(* (a tier change, an override set or cleared).                            *)
(***************************************************************************)
UserStoreWrite ==
    /\ nwrites < MaxWrites
    /\ nwrites' = nwrites + 1
    /\ \E r \in UserRows : r # user /\ user' = r
    /\ UNCHANGED <<clock, redis, pc, loc, nchecks, bucket, lastDecision, lastStats, updatedAt,
                   lastUpdate>>

(***************************************************************************)
(* testCombinedLogicHandler (GET /rate-limit-stats), steps 1 and 2:        *)
(* Date.now(), then the user-store query.                                  *)
(***************************************************************************)
StatsFetch(p) ==
    /\ pc[p] = "idle"
    /\ nchecks < MaxChecks
    /\ nchecks' = nchecks + 1
    /\ IF user = JsNull
       THEN /\ lastStats' = [NoStats EXCEPT !.status = "NotFoundError", !.now = clock]
            /\ UNCHANGED <<loc, pc>>
       ELSE /\ loc' = [loc EXCEPT ![p] = [NoLoc EXCEPT !.row = user, !.now = clock]]
            /\ pc' = [pc EXCEPT ![p] = "statsFetched"]
            /\ UNCHANGED lastStats
    /\ UNCHANGED <<clock, user, redis, nwrites, bucket, lastDecision, updatedAt,
                   lastUpdate>>

(***************************************************************************)
(* Steps 3 and 4: the applicable limit at the instant read in step 1, the  *)
(* key; then GET and TTL are sent.                                         *)
(***************************************************************************)
StatsBegin(p) ==
    /\ pc[p] = "statsFetched"
    /\ LET r == StatsResolve(loc[p].row, loc[p].now)
       IN IF r.tag = "ok"
          THEN /\ loc' = [loc EXCEPT ![p] =
                            [@ EXCEPT !.ws = WindowStartSeconds(loc[p].now,
                                                               r.windowSeconds),
                                      !.limit = r.limit,
                                      !.win = r.windowSeconds,
                                      !.ovr = r.overrideActive]]
               /\ pc' = [pc EXCEPT ![p] = "getSent"]
               /\ UNCHANGED lastStats
          ELSE /\ lastStats' = [NoStats EXCEPT !.status = r.tag,
                                               !.row = loc[p].row,
                                               !.now = loc[p].now]
               /\ loc' = [loc EXCEPT ![p] = NoLoc]
               /\ pc' = [pc EXCEPT ![p] = "idle"]
    /\ UNCHANGED <<clock, user, redis, nchecks, nwrites, bucket, lastDecision, updatedAt,
                   lastUpdate>>

\* redisClient.get(key): null, or the string stored at the key (an entry
\* that no INCR wrote holds its string in `raw`)
RedisGet(store, key) ==
    IF key \notin DOMAIN store THEN JsNull
    ELSE IF "raw" \in DOMAIN store[key] THEN JsText(store[key].raw)
    ELSE JsText(NumberToString(store[key].count))

\* currentCount: 0 for None, else parseInt(str, 10) with NaN replaced by 0
GetCount(store, key) ==
    LET reply == RedisGet(store, key)
    IN IF reply = JsNull THEN 0
       ELSE IF ParseInt(reply.v) = JsNaN THEN 0 ELSE ParseInt(reply.v).v

\* Variant of step 5: the count is read with an increment.
StatsGetCounting(p) ==
    /\ pc[p] = "getSent"
    /\ redis' = incrWithExpireScript(redis, RedisKey(UserId, loc[p].ws),
                                     loc[p].win, clock, loc[p].limit)
    /\ loc' = [loc EXCEPT ![p] =
                 [@ EXCEPT !.count = IncrResult(redis, RedisKey(UserId, loc[p].ws))]]
    /\ pc' = [pc EXCEPT ![p] = "statsTtlSent"]
    /\ UNCHANGED <<clock, user, nchecks, nwrites, bucket, lastDecision, lastStats, updatedAt,
                   lastUpdate>>

(***************************************************************************)
(* Step 5: Redis answers the GET, then the TTL; step 7: the response.      *)
(***************************************************************************)
StatsGet(p) ==
    /\ pc[p] = "getSent"
    /\ loc' = [loc EXCEPT ![p] =
                 [@ EXCEPT !.count = GetCount(redis, RedisKey(UserId, loc[p].ws))]]
    /\ pc' = [pc EXCEPT ![p] = "statsTtlSent"]
    /\ UNCHANGED <<clock, user, redis, nchecks, nwrites, bucket, lastDecision,
                   lastStats, updatedAt,
                   lastUpdate>>

StatsTtl(p) ==
    /\ pc[p] = "statsTtlSent"
    /\ LET l == loc[p]
       IN lastStats' =
            [NoStats EXCEPT !.status = "ok", !.row = l.row, !.now = l.now,
                            !.ws = l.ws, !.limit = l.limit, !.win = l.win,
                            !.currentCount = l.count,
                            !.secondsUntilReset =
                                Ttl(redis, RedisKey(UserId, l.ws), clock),
                            !.overrideActive = l.ovr]
    /\ loc' = [loc EXCEPT ![p] = NoLoc]
    /\ pc' = [pc EXCEPT ![p] = "idle"]
    /\ UNCHANGED <<clock, user, redis, nchecks, nwrites, bucket, lastDecision, updatedAt,
                   lastUpdate>>

(***************************************************************************)
(* Failures of the stores, as the handlers meet them: the user-store query *)
(* rejects or answers with an error (SupabaseError), a counter-store       *)
(* command rejects (RedisError).  A failed EVAL may or may not have run.   *)
(***************************************************************************)
FetchUserFails(p) ==
    /\ pc[p] = "idle"
    /\ nchecks < MaxChecks
    /\ nchecks' = nchecks + 1
    /\ lastDecision' = [NoDecision EXCEPT !.status = "SupabaseError"]
    /\ UNCHANGED <<clock, user, redis, pc, loc, nwrites, bucket, lastStats, updatedAt,
                   lastUpdate>>

RedisEvalFails(p) ==
    /\ pc[p] = "evalSent"
    /\ LET l == loc[p]
           key == RedisKey(UserId, l.ws)
           b == BucketOf(l.ws)
       IN \E ran \in BOOLEAN :
            /\ redis' = IF ran
                        THEN incrWithExpireScript(redis, key, l.win, clock, l.limit)
                        ELSE redis
            /\ bucket' = IF ran /\ InBucket(l.ws, l.win, clock)
                         THEN [w \in DOMAIN bucket \cup {l.ws} |->
                                 IF w = l.ws
                                 THEN [b EXCEPT !.evals = @ + 1,
                                                !.params = @ \cup {<<l.limit, l.win>>}]
                                 ELSE bucket[w]]
                         ELSE bucket
    /\ lastDecision' = [NoDecision EXCEPT !.status = "RedisError"]
    /\ loc' = [loc EXCEPT ![p] = NoLoc]
    /\ pc' = [pc EXCEPT ![p] = "idle"]
    /\ UNCHANGED <<clock, user, nchecks, nwrites, lastStats, updatedAt,
                   lastUpdate>>

\* Variant of the failed TTL read: the handler takes its increment back.
RedisTtlFailsRollback(p) ==
    /\ pc[p] = "ttlSent"
    /\ LET key == RedisKey(UserId, loc[p].ws)
       IN redis' = [k \in DOMAIN redis |->
                      IF k = key THEN [redis[k] EXCEPT !.count = @ - 1]
                      ELSE redis[k]]
    /\ lastDecision' = [NoDecision EXCEPT !.status = "RedisError"]
    /\ loc' = [loc EXCEPT ![p] = NoLoc]
    /\ pc' = [pc EXCEPT ![p] = "idle"]
    /\ UNCHANGED <<clock, user, nchecks, nwrites, bucket, lastStats, updatedAt,
                   lastUpdate>>

RedisTtlFails(p) ==
    /\ pc[p] = "ttlSent"
    /\ lastDecision' = [NoDecision EXCEPT !.status = "RedisError"]
    /\ loc' = [loc EXCEPT ![p] = NoLoc]
    /\ pc' = [pc EXCEPT ![p] = "idle"]
    /\ UNCHANGED <<clock, user, redis, nchecks, nwrites, bucket, lastStats, updatedAt,
                   lastUpdate>>

StatsFetchFails(p) ==
    /\ pc[p] = "idle"
    /\ nchecks < MaxChecks
    /\ nchecks' = nchecks + 1
    /\ lastStats' = [NoStats EXCEPT !.status = "SupabaseError", !.now = clock]
    /\ UNCHANGED <<clock, user, redis, pc, loc, nwrites, bucket, lastDecision, updatedAt,
                   lastUpdate>>

\* GET rejects: the TTL read is not sent
StatsGetFails(p) ==
    /\ pc[p] = "getSent"
    /\ lastStats' = [NoStats EXCEPT !.status = "RedisError", !.row = loc[p].row,
                                    !.now = loc[p].now]
    /\ loc' = [loc EXCEPT ![p] = NoLoc]
    /\ pc' = [pc EXCEPT ![p] = "idle"]
    /\ UNCHANGED <<clock, user, redis, nchecks, nwrites, bucket, lastDecision, updatedAt,
                   lastUpdate>>

StatsTtlFails(p) ==
    /\ pc[p] = "statsTtlSent"
    /\ lastStats' = [NoStats EXCEPT !.status = "RedisError", !.row = loc[p].row,
                                    !.now = loc[p].now]
    /\ loc' = [loc EXCEPT ![p] = NoLoc]
    /\ pc' = [pc EXCEPT ![p] = "idle"]
    /\ UNCHANGED <<clock, user, redis, nchecks, nwrites, bucket, lastDecision, updatedAt,
                   lastUpdate>>

(***************************************************************************)
(* The edge: the userId of the query string is decoded with Schema.UUID    *)
(* before the handler is called; a request that does not decode is         *)
(* answered there.                                                         *)
(***************************************************************************)
InvalidUserId == "not-a-uuid"

RequestIds == {UserId, InvalidUserId}

\* Variant of the decoding: every string is let through.
IsAnyString(userId) == TRUE

\* Schema.UUID
IsUUID(userId) == userId = UserId

CheckRejected(p) ==
    /\ pc[p] = "idle"
    /\ nchecks < MaxChecks
    /\ nchecks' = nchecks + 1
    /\ lastDecision' = [NoDecision EXCEPT !.status = "BadRequest"]
    /\ UNCHANGED <<clock, user, redis, pc, loc, nwrites, bucket, lastStats, updatedAt,
                   lastUpdate>>

StatsRejected(p) ==
    /\ pc[p] = "idle"
    /\ nchecks < MaxChecks
    /\ nchecks' = nchecks + 1
    /\ lastStats' = [NoStats EXCEPT !.status = "BadRequest", !.now = clock]
    /\ UNCHANGED <<clock, user, redis, pc, loc, nwrites, bucket, lastDecision, updatedAt,
                   lastUpdate>>

\* GET /api/check?userId=...
CheckRequest(p, userId) ==
    IF IsUUID(userId) THEN FetchUser(p) ELSE CheckRejected(p)

\* GET /rate-limit-stats?userId=...
StatsRequest(p, userId) ==
    IF IsUUID(userId) THEN StatsFetch(p) ELSE StatsRejected(p)

(***************************************************************************)
(* The HTTP answers.  A body is nothing, the object {error: message}, the  *)
(* bare string message, or the value a handler returns.  No handler passes *)
(* headers.  A handler that returns a value answers with the success       *)
(* response of its endpoint (Api.setResponseBody); a defect, which neither *)
(* catchTags nor catchAll handles, is answered with a bare 500.            *)
(***************************************************************************)
NoValue == [statusCode |-> 0]

NoBody == [kind |-> "none", error |-> << >>, value |-> NoValue]
ErrorObject(message) == [kind |-> "object", error |-> message, value |-> NoValue]
TextBody(message) == [kind |-> "text", error |-> message, value |-> NoValue]
ValueBody(value) == [kind |-> "value", error |-> << >>, value |-> value]

HttpResponse(http, body) == [http |-> http, body |-> body, headers |-> {}]

\* `User ${query.userId} not found`
NotFoundMessage(userId) == <<"User ", userId, " not found">>

\* checkRateLimitHandler, step 3: the object returned for the status
CheckValue(d) ==
    IF d.status = "Allowed"
    THEN [statusCode |-> 200, status |-> "ALLOWED", RetryAfter |-> JsNull]
    ELSE [statusCode |-> 429, status |-> "NOT ALLOWED",
          RetryAfter |-> JsText(NumberToString(d.retryAfter))]

\* the answer to a GET /api/check that ended as d
CheckResponse(d) ==
    CASE d.status \in {"Allowed", "RateLimited"} ->
            HttpResponse(200, ValueBody(CheckValue(d)))
      [] d.status = "NotFoundError" ->
            HttpResponse(404, ErrorObject(NotFoundMessage(UserId)))
      [] d.status = "SupabaseError" ->
            HttpResponse(500, ErrorObject(<<"Database error">>))
      [] d.status = "RedisError" ->
            HttpResponse(500, ErrorObject(<<"Cache error">>))
      [] d.status = "ConfigError" ->
            HttpResponse(500, ErrorObject(<<"Config error">>))
      [] d.status = "BadRequest" -> HttpResponse(400, NoBody)
      [] OTHER -> HttpResponse(500, NoBody)

\* testCombinedLogicHandler, step 7: statsResponse
StatsValue(st) ==
    [userId |-> UserId, tier |-> st.row.tier, limit |-> st.limit,
     windowSeconds |-> st.win, currentCount |-> st.currentCount,
     secondsUntilReset |-> st.secondsUntilReset,
     overrideActive |-> st.overrideActive]

\* the answer to a GET /rate-limit-stats that ended as st
StatsResponse(st) ==
    CASE st.status = "ok" -> HttpResponse(200, ValueBody(StatsValue(st)))
      [] st.status = "NotFoundError" ->
            HttpResponse(404, TextBody(NotFoundMessage(UserId)))
      [] st.status = "SupabaseError" -> HttpResponse(500, TextBody(<<"DB Error">>))
      [] st.status = "RedisError" -> HttpResponse(500, TextBody(<<"Cache Error">>))
      [] st.status = "ConfigError" -> HttpResponse(500, TextBody(<<"Config Error">>))
      [] st.status = "BadRequest" -> HttpResponse(400, NoBody)
      [] OTHER -> HttpResponse(500, NoBody)

(***************************************************************************)
(* Spec: concurrent checks of a user whose row does not change, and time.  *)
(***************************************************************************)
Next ==
    \/ \E p \in Procs : FetchUser(p)
    \/ \E p \in Procs : CheckBegin(p)
    \/ \E p \in Procs : RedisEval(p)
    \/ \E p \in Procs : RedisTtl(p)
    \/ Tick

Spec == Init /\ [][Next]_vars

(***************************************************************************)
(* SpecStore: the same, with the row of the user changing under the        *)
(* requests.                                                               *)
(***************************************************************************)
InitStore == Init /\ user = FreeRow

NextStore == Next \/ UserStoreWrite

SpecStore == InitStore /\ [][NextStore]_vars

(***************************************************************************)
(* SpecResolver: the limit resolution of both handlers on every row of     *)
(* AllRows at every instant of ResolverInstants; one client sends check    *)
(* and stats requests one after the other.                                 *)
(***************************************************************************)
InitResolver ==
    /\ clock \in ResolverInstants
    /\ user \in AllRows
    /\ redis = << >>
    /\ pc = [p \in Procs |-> "idle"]
    /\ loc = [p \in Procs |-> NoLoc]
    /\ nchecks = 0
    /\ nwrites = 0
    /\ bucket = << >>
    /\ lastDecision = NoDecision
    /\ lastStats = NoStats
    /\ updatedAt = 0
    /\ lastUpdate = NoUpdate

NextResolver ==
    \/ FetchUser(1)
    \/ CheckBegin(1)
    \/ RedisEval(1)
    \/ RedisTtl(1)
    \/ StatsFetch(1)
    \/ StatsBegin(1)
    \/ StatsGet(1)
    \/ StatsTtl(1)

SpecResolver == InitResolver /\ [][NextResolver]_vars

(***************************************************************************)
(* SpecHttp: GET /api/check as a client sees it: requests with a valid or  *)
(* an invalid userId, for a user with or without a row, with a tier of the *)
(* configuration or another one, while the stores can fail; one client     *)
(* sends its requests one after the other.                                 *)
(***************************************************************************)
GoldRow == Row("gold", JsNull, JsNull, JsNull)

HttpRows == {FreeRow, GoldRow, JsNull}

InitHttp ==
    /\ clock = 0
    /\ user \in HttpRows
    /\ redis = << >>
    /\ pc = [p \in Procs |-> "idle"]
    /\ loc = [p \in Procs |-> NoLoc]
    /\ nchecks = 0
    /\ nwrites = 0
    /\ bucket = << >>
    /\ lastDecision = NoDecision
    /\ lastStats = NoStats
    /\ updatedAt = 0
    /\ lastUpdate = NoUpdate

NextHttp ==
    \/ \E id \in RequestIds : CheckRequest(1, id)
    \/ FetchUserFails(1)
    \/ CheckBegin(1)
    \/ RedisEval(1)
    \/ RedisEvalFails(1)
    \/ RedisTtl(1)
    \/ RedisTtlFails(1)
    \/ Tick

SpecHttp == InitHttp /\ [][NextHttp]_vars

(***************************************************************************)
(* SpecStats: GET /rate-limit-stats as clients see it, against a counter   *)
(* store that holds, at the key of the first bucket, nothing, a counter    *)
(* the script wrote, a counter without expiry, or a string that is no      *)
(* number; the stores can fail and time passes.                            *)
(***************************************************************************)
StoredCount == 11

FirstKey == RedisKey(UserId, 0)

StatsStores ==
    {<< >>,
     [k \in {FirstKey} |-> [count |-> StoredCount, expireAt |-> 60000,
                            window |-> 60, deniedMax |-> 10]],
     [k \in {FirstKey} |-> [count |-> StoredCount, expireAt |-> NoExpiry,
                            window |-> 60, deniedMax |-> 10]],
     [k \in {FirstKey} |-> [raw |-> <<"a", "b", "c">>, expireAt |-> 60000]]}

StatsRows == UserRows \cup {GoldRow, JsNull}

InitStats ==
    /\ clock = 0
    /\ user \in StatsRows
    /\ redis \in StatsStores
    /\ pc = [p \in Procs |-> "idle"]
    /\ loc = [p \in Procs |-> NoLoc]
    /\ nchecks = 0
    /\ nwrites = 0
    /\ bucket = << >>
    /\ lastDecision = NoDecision
    /\ lastStats = NoStats
    /\ updatedAt = 0
    /\ lastUpdate = NoUpdate

NextStats ==
    \/ \E p \in Procs, id \in RequestIds : StatsRequest(p, id)
    \/ \E p \in Procs : StatsFetchFails(p)
    \/ \E p \in Procs : StatsBegin(p)
    \/ \E p \in Procs : StatsGet(p)
    \/ \E p \in Procs : StatsGetFails(p)
    \/ \E p \in Procs : StatsTtl(p)
    \/ \E p \in Procs : StatsTtlFails(p)
    \/ Tick

SpecStats == InitStats /\ [][NextStats]_vars

(***************************************************************************)
(*                              Properties                                 *)
(***************************************************************************)
Min(a, b) == IF a <= b THEN a ELSE b

KeyWs(key) == key[3]

\* the bucket histories whose checks were all decided with one limit and window
FixedBuckets == {ws \in DOMAIN bucket : Cardinality(bucket[ws].params) = 1}

LimitOf(ws) == (CHOOSE prm \in bucket[ws].params : TRUE)[1]

C2_AllowedIffWithinLimit ==
    /\ lastDecision.status = "Allowed" => lastDecision.count <= lastDecision.limit
    /\ lastDecision.status = "RateLimited" => lastDecision.count > lastDecision.limit
    /\ \A p \in Procs : pc[p] = "ttlSent" => loc[p].count > loc[p].limit

\* The check that saw count = limit + 1 is RateLimited, after the one that saw
\* count = limit was Allowed.
C2_Witness ==
    /\ lastDecision.status = "RateLimited"
    /\ lastDecision.count = lastDecision.limit + 1
    /\ lastDecision.ws \in DOMAIN bucket
    /\ bucket[lastDecision.ws].allowed = lastDecision.limit

C4_NextBucketStartsFresh ==
    /\ \A p \in Procs :
         pc[p] = "evalSent" =>
            /\ loc[p].ws % loc[p].win = 0
            /\ loc[p].ws <= NowSeconds(loc[p].now)
            /\ NowSeconds(loc[p].now) < loc[p].ws + loc[p].win
    /\ lastDecision.first =>
         /\ lastDecision.count = 1
         /\ lastDecision.status = "Allowed"

\* The first check of bucket ws + win is Allowed while the key of the
\* exhausted bucket ws is still live with a count over the limit.
C4_Witness ==
    /\ lastDecision.first
    /\ lastDecision.status = "Allowed"
    /\ LET prev == lastDecision.ws - lastDecision.win
       IN /\ prev \in DOMAIN bucket
          /\ bucket[prev].evals > lastDecision.limit
          /\ RedisKey(UserId, prev) \in DOMAIN redis
          /\ redis[RedisKey(UserId, prev)].count > lastDecision.limit

(***************************************************************************)
(* The limit resolution as the specification words it (sections 3 and      *)
(* 4.1), for a row whose expiry column denotes an instant.                 *)
(***************************************************************************)
OverrideComplete(row) ==
    /\ NotNull(row.override_limit_requests)
    /\ NotNull(row.override_limit_window_seconds)
    /\ NotNull(row.override_limit_expiry)

OverrideIsActive(row, nowMillis) ==
    OverrideComplete(row) /\ row.override_limit_expiry.v > nowMillis

StatedResolve(row, nowMillis) ==
    WindowGuard(
      IF OverrideIsActive(row, nowMillis)
      THEN Resolved(row.override_limit_requests.v,
                    row.override_limit_window_seconds.v, TRUE)
      ELSE TierLimit(row.tier))

\* a handler holds a resolved limit and window
HasResolved(p) == pc[p] \in {"evalSent", "getSent"}

AgreesWithStated(p) ==
    LET r == StatedResolve(loc[p].row, loc[p].now)
    IN /\ r.tag = "ok"
       /\ loc[p].limit = r.limit
       /\ loc[p].win = r.windowSeconds

\* C5: both handlers use the override values iff the three override fields
\* are non-null and the expiry is later than now; a row with a partial or an
\* expired override is resolved to the tier values, as a row without override.
C5_OverrideIffActive ==
    /\ \A p \in Procs : HasResolved(p) => AgreesWithStated(p)
    /\ lastDecision.status \in {"TypeError", "ConfigError"} =>
          StatedResolve(lastDecision.row, lastDecision.now).tag # "ok"
    /\ lastStats.status \in {"TypeError", "ConfigError"} =>
          StatedResolve(lastStats.row, lastStats.now).tag # "ok"

\* the part of C5 that is about the stats handler alone
C5_StatsPart ==
    /\ \A p \in Procs : pc[p] = "getSent" => AgreesWithStated(p)
    /\ lastStats.status \in {"TypeError", "ConfigError"} =>
          StatedResolve(lastStats.row, lastStats.now).tag # "ok"

\* C6: a check of a user with a complete override (positive window, known
\* tier) made at now < expiry is decided with the override limit and window,
\* and one made at now >= expiry with the limit and window of the tier.
C6_OverrideUntilExpiry ==
    /\ \A p \in Procs :
         (pc[p] = "evalSent" /\ OverrideComplete(loc[p].row)) =>
            IF loc[p].now < loc[p].row.override_limit_expiry.v
            THEN /\ loc[p].limit = loc[p].row.override_limit_requests.v
                 /\ loc[p].win = loc[p].row.override_limit_window_seconds.v
            ELSE /\ loc[p].limit = ConfigOf(loc[p].row.tier).requests
                 /\ loc[p].win = ConfigOf(loc[p].row.tier).windowSeconds
    /\ ~ /\ lastDecision.status \in {"TypeError", "ConfigError"}
         /\ OverrideComplete(lastDecision.row)
         /\ lastDecision.row.override_limit_window_seconds.v > 0
         /\ lastDecision.row.tier \in ConfigTiers

\* C7: whenever a handler has resolved a limit and a window without a
\* ConfigError, both are > 0.
C7_ResolvedPositive ==
    \A p \in Procs : HasResolved(p) => loc[p].limit > 0 /\ loc[p].win > 0

\* the windowSeconds a request made now would resolve for the user
ResolvedWindows ==
    {r.windowSeconds :
        r \in {x \in {CheckResolve(user, clock), StatsResolve(user, clock)} :
                  x.tag = "ok"}}

LiveKeys == DOMAIN redis

TtlNow(key) == Ttl(redis, key, clock)

\* no command extends the TTL of a key that stays live
TtlNeverIncreases ==
    [][\A k \in DOMAIN redis \cap DOMAIN redis' :
          Ttl(redis', k, clock') <= Ttl(redis, k, clock)]_vars

\* C8 as stated: the TTL of a live key never exceeds the windowSeconds
\* resolved for the user at that moment.
C8_TtlWithinCurrentWindow ==
    \A k \in LiveKeys : \A w \in ResolvedWindows : TtlNow(k) <= w

\* C8, amended: the TTL of a live key never exceeds the windowSeconds its
\* first increment passed to the script, and never increases while the key
\* lives.
C8_TtlWithinCreationWindow ==
    /\ [](\A k \in LiveKeys : TtlNow(k) >= 0 /\ TtlNow(k) <= redis[k].window)
    /\ TtlNeverIncreases

\* A key that was incremented again after its first increment has, after a
\* change of the row, a TTL above the window now resolved.
C8_Witness ==
    \E k \in LiveKeys :
        /\ redis[k].count >= 2
        /\ TtlNow(k) <= redis[k].window
        /\ \E w \in ResolvedWindows : TtlNow(k) > w

\* C9 as stated: at most one counter key of the user exists, and it is the
\* key of the bucket the clock is in.
C9_OnlyCurrentKey ==
    /\ Cardinality(LiveKeys) <= 1
    /\ \A k \in LiveKeys : \A w \in ResolvedWindows :
          KeyWs(k) = WindowStartSeconds(clock, w)

\* C9, amended: several keys can be live, the key of the current bucket and
\* keys of earlier buckets whose TTL has not run out; no live key starts
\* later than the clock, and each expires within its windowSeconds.
C9_NoFutureKey ==
    \A k \in LiveKeys :
        /\ KeyWs(k) <= NowSeconds(clock)
        /\ redis[k].expireAt > clock
        /\ redis[k].expireAt - clock <= redis[k].window * MillisPerSecond

\* The key of the current bucket and the key of the previous bucket are live.
C9_Witness ==
    \E k1, k2 \in LiveKeys :
        /\ \E w \in ResolvedWindows : KeyWs(k1) = WindowStartSeconds(clock, w)
        /\ KeyWs(k2) < KeyWs(k1)

\* every check that was counted over its limit has returned RateLimited
NoDenialPending == \A p \in Procs : pc[p] # "ttlSent"

\* C10 as stated: once a check on a key has returned RateLimited, no later
\* check on that key returns Allowed until the key has expired.
C10_NoAllowedAfterDenied ==
    (lastDecision.status = "Allowed" /\ NoDenialPending) => lastDecision.prior = 0

\* C10, amended: once a check on a key was over its limit L, no later check
\* on that key decided with a limit <= L is Allowed until the key has
\* expired (a check decided with a larger limit can be).
C10_NoAllowedWithinDeniedLimit ==
    lastDecision.status = "Allowed" => lastDecision.limit > lastDecision.prior

\* After the tier was raised, a check is Allowed on a key on which an
\* earlier check was RateLimited.
C10_Witness ==
    /\ lastDecision.status = "Allowed"
    /\ NoDenialPending
    /\ lastDecision.prior > 0
    /\ RedisKey(UserId, lastDecision.ws) \in LiveKeys

\* C11: every RateLimited decision carries a retryAfterSeconds that is an
\* integer >= 0 and <= the windowSeconds resolved for that decision.
C11_RetryAfterWithinWindow ==
    lastDecision.status = "RateLimited" =>
        /\ lastDecision.retryAfter \in 0..lastDecision.win
        /\ lastDecision.ttl >= 0 => lastDecision.retryAfter = lastDecision.ttl

\* A check was RateLimited after its key had expired between the increment
\* and the TTL read: the TTL reply is -2 and retryAfterSeconds the window.
C11_Witness ==
    /\ lastDecision.status = "RateLimited"
    /\ lastDecision.ttl = -2
    /\ lastDecision.retryAfter = lastDecision.win

\* C12: a GET /api/check with a valid userId that has no row is answered
\* 404 {error: "User <id> not found"} and sends no command to the counter
\* store: no key is created or incremented, and the request is over.
C12_MissingUserIs404 ==
    [][(user = JsNull /\ CheckRequest(1, UserId)) =>
          /\ CheckResponse(lastDecision') =
                HttpResponse(404, ErrorObject(<<"User ", UserId, " not found">>))
          /\ redis' = redis
          /\ pc'[1] = "idle"]_vars

\* A check for the user without a row ended with NotFoundError.
C12_Witness ==
    /\ user = JsNull
    /\ lastDecision.status = "NotFoundError"
    /\ CheckResponse(lastDecision).http = 404
    /\ redis = << >>

\* C13: a GET /api/check whose userId is no UUID is answered 400 without the
\* handler running: no query to the user store, no command to the counter
\* store, both stores unchanged.
C13_InvalidUserIdIs400 ==
    [][CheckRequest(1, InvalidUserId) =>
          /\ CheckResponse(lastDecision').http = 400
          /\ pc' = pc /\ loc' = loc
          /\ user' = user /\ redis' = redis]_vars

\* A request with an invalid userId was answered while the user has a row
\* and a live counter.
C13_Witness ==
    /\ lastDecision.status = "BadRequest"
    /\ user # JsNull
    /\ redis # << >>

\* C14: a RateLimited{r} decision is answered with status 429, the body
\* {statusCode: 429, status: "NOT ALLOWED", RetryAfter: r as a string} and a
\* Retry-After header of the same value; an Allowed decision with status 200
\* and the body {statusCode: 200, status: "ALLOWED"}.
C14_ResponseOfDecision ==
    LET r == CheckResponse(lastDecision)
    IN /\ lastDecision.status = "RateLimited" =>
            /\ r.http = 429
            /\ r.body.kind = "value"
            /\ r.body.value.statusCode = 429
            /\ r.body.value.status = "NOT ALLOWED"
            /\ r.body.value.RetryAfter.t = "text"
            /\ ParseInt(r.body.value.RetryAfter.v) = JsNum(lastDecision.retryAfter)
            /\ <<"Retry-After", r.body.value.RetryAfter.v>> \in r.headers
       /\ lastDecision.status = "Allowed" =>
            /\ r.http = 200
            /\ r.body.kind = "value"
            /\ r.body.value.statusCode = 200
            /\ r.body.value.status = "ALLOWED"

\* the part of C14 that is about the bodies alone
C14_BodyOfDecision ==
    LET r == CheckResponse(lastDecision)
    IN /\ lastDecision.status = "RateLimited" =>
            /\ r.body.kind = "value"
            /\ r.body.value.statusCode = 429
            /\ r.body.value.status = "NOT ALLOWED"
            /\ r.body.value.RetryAfter.t = "text"
            /\ ParseInt(r.body.value.RetryAfter.v) = JsNum(lastDecision.retryAfter)
       /\ lastDecision.status = "Allowed" =>
            /\ r.http = 200
            /\ r.body.kind = "value"
            /\ r.body.value.statusCode = 200
            /\ r.body.value.status = "ALLOWED"

\* the error kinds of the handlers
ErrorKinds == {"NotFoundError", "SupabaseError", "RedisError", "ConfigError"}

\* the external mapping the specification gives each error kind (section 7)
StatedHttp(kind) == IF kind = "NotFoundError" THEN 404 ELSE 500

StatedError(kind) ==
    CASE kind = "NotFoundError" -> <<"User ", UserId, " not found">>
      [] kind = "SupabaseError" -> <<"Database error">>
      [] kind = "RedisError" -> <<"Cache error">>
      [] kind = "ConfigError" -> <<"Config error">>

AnsweredAsStated(r, kind) ==
    /\ r.http = StatedHttp(kind)
    /\ r.body.kind = "object"
    /\ r.body.error = StatedError(kind)

\* C15: on /api/check and on /rate-limit-stats alike, NotFound is answered
\* 404, a user-store error 500 {error: "Database error"}, a counter-store
\* error 500 {error: "Cache error"}, a config error 500 {error: "Config
\* error"}, always with a body of shape {error: string}.
C15_OneMappingPerErrorKind ==
    /\ lastDecision.status \in ErrorKinds =>
          AnsweredAsStated(CheckResponse(lastDecision), lastDecision.status)
    /\ lastStats.status \in ErrorKinds =>
          AnsweredAsStated(StatsResponse(lastStats), lastStats.status)

\* the part of C15 that is about /api/check alone
C15_CheckPart ==
    lastDecision.status \in ErrorKinds =>
        AnsweredAsStated(CheckResponse(lastDecision), lastDecision.status)

\* the part of C15 that is about the status codes alone
C15_StatusPart ==
    /\ lastDecision.status \in ErrorKinds =>
          CheckResponse(lastDecision).http = StatedHttp(lastDecision.status)
    /\ lastStats.status \in ErrorKinds =>
          StatsResponse(lastStats).http = StatedHttp(lastStats.status)

\* a step of a stats request of handler p
StatsStep(p) ==
    \/ \E id \in RequestIds : StatsRequest(p, id)
    \/ StatsFetchFails(p)
    \/ StatsBegin(p)
    \/ StatsGet(p)
    \/ StatsGetFails(p)
    \/ StatsTtl(p)
    \/ StatsTtlFails(p)

\* C16: no step of a stats request, successful or failed, changes the
\* counter store: every key keeps its value and its expiry, none is created.
C16_StatsLeavesStore ==
    [][\A p \in Procs : StatsStep(p) => redis' = redis]_vars

\* A stats request has reported the count of a live key, which is as it was.
C16_Witness ==
    /\ lastStats.status = "ok"
    /\ lastStats.currentCount = StoredCount
    /\ lastStats.secondsUntilReset > 0
    /\ FirstKey \in DOMAIN redis
    /\ redis \in StatsStores

\* the integer stored at a key; 0 for an absent key or a value that is no number
StoredInteger(store, key) ==
    IF key \notin DOMAIN store \/ "raw" \in DOMAIN store[key] THEN 0
    ELSE store[key].count

\* C17: currentCount is the integer stored at the bucket key when GET is
\* answered, 0 for an absent key or a value that does not parse, and
\* secondsUntilReset is the TTL reply as it is, -1 and -2 included.
C17_StatsForwardsCountAndTtl ==
    [][\A p \in Procs :
         /\ StatsGet(p) =>
               loc'[p].count = StoredInteger(redis, RedisKey(UserId, loc[p].ws))
         /\ StatsTtl(p) =>
               LET v == StatsResponse(lastStats').body.value
               IN /\ v.currentCount = loc[p].count
                  /\ v.secondsUntilReset = Ttl(redis, RedisKey(UserId, loc[p].ws), clock)
                  /\ v.secondsUntilReset \in {-2, -1} \cup 0..loc[p].win
                        \cup 0..FreeWindowSeconds]_vars

\* A stats response reports the count of a key without expiry with the
\* sentinel -1.
C17_Witness ==
    /\ lastStats.status = "ok"
    /\ lastStats.currentCount = StoredCount
    /\ lastStats.secondsUntilReset = -1

\* A stats response reports a value that is no number as count 0.
C17_WitnessUnparseable ==
    /\ lastStats.status = "ok"
    /\ lastStats.currentCount = 0
    /\ lastStats.secondsUntilReset > 0


(***************************************************************************)
(* The override writer: PUT /users/:userId/rate-limits                     *)
(* (updateUserRateLimitHandler).  A request body is JSON: each of the      *)
(* three override fields is absent, null or a value.                       *)
(***************************************************************************)
JsUndefined == [t |-> "undefined", v |-> 0]

OverrideFields == {"override_limit_requests", "override_limit_window_seconds",
                   "override_limit_expiry"}

PastExpiry == 500           \* an expiry instant the clock can be past (ms)

UpdateBodies ==
    [override_limit_requests : {JsUndefined, JsNull, JsNum(0), JsNum(5), JsNum(0 - 1)},
     override_limit_window_seconds : {JsUndefined, JsNull, JsNum(0), JsNum(30)},
     override_limit_expiry : {JsUndefined, JsNull, JsStr(PastExpiry), JsStr(OverrideExpiry)}]

\* Schema.optionalWith(schema, {nullable: true}): a null field decodes to an
\* absent one; DateFromString decodes the ISO string to a Date
DecodeField(x) == IF x = JsNull THEN JsUndefined ELSE NewDate(x)

DecodeBody(raw) == [f \in OverrideFields |-> DecodeField(raw[f])]

\* 'f' in body
InBody(body, f) == body[f] # JsUndefined

\* variant of UpdateData that includes every override field
UpdateDataAll(body) ==
    [f \in OverrideFields |-> IF InBody(body, f) THEN body[f] ELSE JsNull]

\* updateData: only the fields the body holds (JsUndefined: key not set)
UpdateData(body) ==
    [f \in OverrideFields |-> IF InBody(body, f) THEN body[f] ELSE JsUndefined]

\* JSON.stringify of a column value on its way to the user store: a Date
\* goes as its ISO string
ToJson(x) == IF x.t = "date" THEN JsStr(x.v) ELSE x

\* UPDATE users SET <updateData> WHERE id = userId, on the row of the user
ApplyUpdate(row, updateData) ==
    [f \in DOMAIN row |->
        IF f \in OverrideFields /\ updateData[f] # JsUndefined
        THEN ToJson(updateData[f])
        ELSE row[f]]

\* how the handler ends: `query` is not among the handler's inputs
\* (TypeError on query.userId), the store call fails or finds no single
\* row (.single() reports an error), or the row is updated
UpdateStatus(queryGiven, storeUp, row) ==
    IF ~queryGiven THEN "TypeError"
    ELSE IF ~storeUp \/ row = JsNull THEN "SupabaseError"
    ELSE "ok"

UpdateUserRateLimit(raw, queryGiven, storeUp) ==
    LET body == DecodeBody(raw)
        status == UpdateStatus(queryGiven, storeUp, user)
        after == IF status = "ok" THEN ApplyUpdate(user, UpdateData(body)) ELSE user
    IN  /\ nwrites < MaxWrites
        /\ nwrites' = nwrites + 1
        /\ user' = after
        /\ updatedAt' = IF status = "ok" THEN clock ELSE updatedAt
        /\ lastUpdate' = [status |-> status, raw |-> raw, now |-> clock,
                          before |-> user, after |-> after]
        /\ UNCHANGED <<clock, redis, pc, loc, nchecks, bucket, lastDecision,
                       lastStats>>

\* the request is refused at the edge: the path parameter is not a UUID
UpdateRejected(raw) ==
    /\ nwrites < MaxWrites
    /\ nwrites' = nwrites + 1
    /\ lastUpdate' = [status |-> "BadRequest", raw |-> raw, now |-> clock,
                      before |-> user, after |-> user]
    /\ UNCHANGED <<clock, user, redis, pc, loc, nchecks, bucket, lastDecision,
                   lastStats, updatedAt>>

UpdateRequest(userId, raw) ==
    IF IsUUID(userId)
    THEN \E queryGiven \in BOOLEAN, storeUp \in BOOLEAN :
            UpdateUserRateLimit(raw, queryGiven, storeUp)
    ELSE UpdateRejected(raw)

\* the value the handler returns on success
UpdateValue(u) ==
    [success |-> TRUE, userId |-> UserId,
     updated |-> [f \in OverrideFields |-> u.after[f]]]

\* the HTTP answer of the writer
UpdateResponse(u) ==
    CASE u.status = "ok" -> HttpResponse(200, ValueBody(UpdateValue(u)))
      [] u.status = "NotFoundError" ->
            HttpResponse(404, ErrorObject(NotFoundMessage(UserId)))
      [] u.status = "SupabaseError" ->
            HttpResponse(500, ErrorObject(<<"Database error">>))
      [] u.status = "BadRequest" -> HttpResponse(400, NoBody)
      [] OTHER -> HttpResponse(500, NoBody)

OverrideRow == Row("free", JsNum(2), JsNum(30), JsStr(OverrideExpiry))

WriterRows == {FreeRow, OverrideRow, JsNull}

WriterStores == {s \in StatsStores : \A k \in DOMAIN s : "count" \in DOMAIN s[k]}

InitWriter ==
    /\ clock = 0
    /\ user \in WriterRows
    /\ redis \in WriterStores
    /\ pc = [p \in Procs |-> "idle"]
    /\ loc = [p \in Procs |-> NoLoc]
    /\ nchecks = 0
    /\ nwrites = 0
    /\ bucket = << >>
    /\ lastDecision = NoDecision
    /\ lastStats = NoStats
    /\ updatedAt = 0
    /\ lastUpdate = NoUpdate

NextWriter ==
    \/ \E userId \in RequestIds, raw \in UpdateBodies : UpdateRequest(userId, raw)
    \/ Tick

SpecWriter == InitWriter /\ [][NextWriter]_vars


(***************************************************************************)
(* C18: the override writer changes only the override fields present in    *)
(* the request body, plus updated_at; every override field absent from     *)
(* the body, the tier and the whole counter store keep their values.       *)
(***************************************************************************)
WriterStep ==
    \E userId \in RequestIds, raw \in UpdateBodies : UpdateRequest(userId, raw)

\* the fields of the row that the step changed
ChangedFields == IF user = JsNull \/ user' = JsNull THEN {}
                 ELSE {f \in DOMAIN user : user'[f] # user[f]}

C18_WriterFrame ==
    [][WriterStep =>
        /\ redis' = redis
        /\ (user = JsNull) = (user' = JsNull)
        /\ \A f \in ChangedFields :
              f \in OverrideFields /\ lastUpdate'.raw[f] # JsUndefined]_vars

\* a write that carried only the limit changed the limit, bumped
\* updated_at and left the window, the expiry and a live counter alone
C18_Witness ==
    /\ lastUpdate.status = "ok"
    /\ lastUpdate.before = OverrideRow
    /\ lastUpdate.raw = [override_limit_requests |-> JsNum(5),
                         override_limit_window_seconds |-> JsUndefined,
                         override_limit_expiry |-> JsUndefined]
    /\ user = Row("free", JsNum(5), JsNum(30), JsStr(OverrideExpiry))
    /\ updatedAt = lastUpdate.now
    /\ updatedAt > 0
    /\ DOMAIN redis # {}


(***************************************************************************)
(* C19: the override writer rejects, without changing the user record, a   *)
(* body whose limit or window is supplied and not positive, and a body     *)
(* whose expiry is not in the future at write time.                        *)
(***************************************************************************)
NotPositive(x) == x.t = "num" /\ x.v <= 0

NotInFuture(x, now) == x.t = "str" /\ x.v <= now

InvalidBody(raw, now) ==
    \/ NotPositive(raw.override_limit_requests)
    \/ NotPositive(raw.override_limit_window_seconds)
    \/ NotInFuture(raw.override_limit_expiry, now)

C19_InvalidBodyRejected ==
    (lastUpdate.status # "none" /\ InvalidBody(lastUpdate.raw, lastUpdate.now))
        => /\ lastUpdate.status # "ok"
           /\ lastUpdate.after = lastUpdate.before

\* what the writer does with such a body: it stores the values as sent
C19_InvalidBodyStored ==
    (/\ lastUpdate.status = "ok"
     /\ InvalidBody(lastUpdate.raw, lastUpdate.now))
        => \A f \in OverrideFields :
              lastUpdate.raw[f] \notin {JsUndefined, JsNull}
                  => lastUpdate.after[f] = lastUpdate.raw[f]

(***************************************************************************)
(* C20: called for a user id that matches no row, the override writer      *)
(* fails with NotFound (HTTP 404, error "User <id> not found"), not with a *)
(* user-store error, and no row is created or changed.                     *)
(***************************************************************************)
NoRowMatched ==
    /\ lastUpdate.status \notin {"none", "BadRequest"}
    /\ lastUpdate.before = JsNull

C20_MissingRowIs404 ==
    NoRowMatched
        => /\ UpdateResponse(lastUpdate) =
                 HttpResponse(404, ErrorObject(NotFoundMessage(UserId)))
           /\ lastUpdate.status = "NotFoundError"
           /\ lastUpdate.after = JsNull

\* the part of C20 that holds: no row is created or changed
C20_NoRowCreated == NoRowMatched => (lastUpdate.after = JsNull /\ user = JsNull)

\* what the writer answers instead: a 500, never the 404
C20_MissingRowIs500 == NoRowMatched => UpdateResponse(lastUpdate).http = 500


(***************************************************************************)
(* SpecRoundTrip: a client writes an override patch and then reads the     *)
(* stats of the same user, one read for each write, while time passes.     *)
(***************************************************************************)
RoundTripRows == {FreeRow, OverrideRow, GoldRow}

InitRoundTrip ==
    /\ clock = 0
    /\ user \in RoundTripRows
    /\ redis = << >>
    /\ pc = [p \in Procs |-> "idle"]
    /\ loc = [p \in Procs |-> NoLoc]
    /\ nchecks = 0
    /\ nwrites = 0
    /\ bucket = << >>
    /\ lastDecision = NoDecision
    /\ lastStats = NoStats
    /\ updatedAt = 0
    /\ lastUpdate = NoUpdate

\* the read that follows a write
ReadAfterWrite == nchecks < nwrites /\ StatsRequest(1, UserId)

NextRoundTrip ==
    \/ \E raw \in UpdateBodies : UpdateRequest(UserId, raw)
    \/ ReadAfterWrite
    \/ StatsBegin(1)
    \/ StatsGet(1)
    \/ StatsTtl(1)
    \/ Tick

SpecRoundTrip == InitRoundTrip /\ [][NextRoundTrip]_vars

(***************************************************************************)
(* C21: round trip: after a successful override write, a following stats   *)
(* read at time now reports overrideActive = true iff the record after the *)
(* patch has all three override fields non-null and its expiry > now.      *)
(***************************************************************************)
\* a stats read of the record the latest successful write left has ended
ReadTheWrittenRecord ==
    /\ lastUpdate.status = "ok"
    /\ lastStats.status \in {"ok", "ConfigError", "TypeError"}
    /\ lastStats.row = lastUpdate.after

ReportsOverrideActive == lastStats.status = "ok" /\ lastStats.overrideActive

C21_RoundTrip ==
    ReadTheWrittenRecord =>
        (ReportsOverrideActive <=> OverrideIsActive(lastUpdate.after, lastStats.now))

\* the part of C21 that holds: the round trip of a record whose window is
\* positive
C21_PositiveWindowPart ==
    (/\ ReadTheWrittenRecord
     /\ ~NotPositive(lastUpdate.after.override_limit_window_seconds))
        => (ReportsOverrideActive
              <=> OverrideIsActive(lastUpdate.after, lastStats.now))

\* the other direction always holds: a read that reports an active
\* override has read a complete, unexpired one
C21_ReportedIsActive ==
    (ReadTheWrittenRecord /\ ReportsOverrideActive)
        => OverrideIsActive(lastUpdate.after, lastStats.now)


(***************************************************************************)
(* SpecTier: GET /api/check for rows whose tier is a key of the            *)
(* configuration, empty, another word, or a property name every object     *)
(* inherits; without override, or with a partial one.  The counter store   *)
(* may hold a counter of an earlier bucket owner.                          *)
(***************************************************************************)
PartialRow == Row("gold", JsNum(2), JsNull, JsStr(OverrideExpiry))

TierRows ==
    {Row(t, JsNull, JsNull, JsNull) : t \in {"free", "", "gold", "constructor"}}
        \cup {PartialRow}

InitTier ==
    /\ clock = 0
    /\ user \in TierRows
    /\ redis \in WriterStores
    /\ pc = [p \in Procs |-> "idle"]
    /\ loc = [p \in Procs |-> NoLoc]
    /\ nchecks = 0
    /\ nwrites = 0
    /\ bucket = << >>
    /\ lastDecision = NoDecision
    /\ lastStats = NoStats
    /\ updatedAt = 0
    /\ lastUpdate = NoUpdate

NextTier ==
    \/ FetchUser(1)
    \/ CheckBegin(1)
    \/ RedisEval(1)
    \/ RedisTtl(1)
    \/ Tick

SpecTier == InitTier /\ [][NextTier]_vars

(***************************************************************************)
(* C22: a check for a user with no active override whose tier is empty or  *)
(* is not a key of the config registry fails with ConfigError (mapped to   *)
(* 500) and performs no counter-store operation.                           *)
(***************************************************************************)
NoPolicy(row, nowMillis) ==
    ~OverrideIsActive(row, nowMillis) /\ row.tier \notin ConfigTiers

C22_UnknownTierIsConfigError ==
    /\ \A p \in Procs : pc[p] = "evalSent" => ~NoPolicy(loc[p].row, loc[p].now)
    /\ (/\ lastDecision.status \in {"ConfigError", "TypeError"}
        /\ NoPolicy(lastDecision.row, lastDecision.now))
          => /\ lastDecision.status = "ConfigError"
             /\ CheckResponse(lastDecision) =
                    HttpResponse(500, ErrorObject(<<"Config error">>))

\* the part of C22 that holds: such a check sends nothing to the counter
\* store
C22_NoStoreOperation ==
    [][\A p \in Procs :
         (CheckBegin(p) /\ NoPolicy(loc[p].row, clock))
            => (redis' = redis /\ pc'[p] = "idle")]_vars

\* and it is a ConfigError when the expiry column is null and the tier is no
\* inherited property name
C22_PlainRowPart ==
    (/\ lastDecision.status \in {"ConfigError", "TypeError"}
     /\ NoPolicy(lastDecision.row, lastDecision.now)
     /\ lastDecision.row.override_limit_expiry = JsNull
     /\ lastDecision.row.tier \notin InheritedKeys)
        => CheckResponse(lastDecision) =
               HttpResponse(500, ErrorObject(<<"Config error">>))


(***************************************************************************)
(* C23: if the resolved windowSeconds is <= 0, from the tier policy or     *)
(* from an active override, the check fails with ConfigError before any    *)
(* counter-store operation: no fallback to the tier values, no key, no     *)
(* increment.                                                              *)
(***************************************************************************)
\* the row resolves, as the specification words it, to a window <= 0
NonPositiveWindow(row, nowMillis) ==
    \/ /\ OverrideIsActive(row, nowMillis)
       /\ row.override_limit_window_seconds.v <= 0
    \/ /\ ~OverrideIsActive(row, nowMillis)
       /\ row.tier \in ConfigTiers
       /\ ConfigOf(row.tier).windowSeconds <= 0

C23_NonPositiveWindowIsConfigError ==
    /\ \A p \in Procs : pc[p] = "evalSent" => loc[p].win > 0
    /\ (/\ lastDecision.status \in {"ConfigError", "TypeError"}
        /\ NonPositiveWindow(lastDecision.row, lastDecision.now))
          => lastDecision.status = "ConfigError"

\* the part of C23 that holds: such a check ends without a counter-store
\* operation and without a key
C23_NoStoreOperation ==
    [][(CheckBegin(1) /\ NonPositiveWindow(loc[1].row, clock))
          => (redis' = redis /\ pc'[1] = "idle" /\ loc'[1] = NoLoc)]_vars

\* the stats handler, which converts the expiry, does fail with ConfigError
C23_StatsPart ==
    /\ \A p \in Procs : pc[p] = "getSent" => loc[p].win > 0
    /\ (/\ lastStats.status \in {"ConfigError", "TypeError"}
        /\ NonPositiveWindow(lastStats.row, lastStats.now))
          => lastStats.status = "ConfigError"

\* a stats read has met a window <= 0
C23_StatsReached ==
    /\ lastStats.status = "ConfigError"
    /\ NonPositiveWindow(lastStats.row, lastStats.now)


(***************************************************************************)
(* SpecExpiry: GET /api/check for a free user whose override (2 requests   *)
(* in 60 s, the window of the tier) expires 500 ms into the first bucket,  *)
(* and for a free user without override; one client, time passes.          *)
(***************************************************************************)
ExpiringRow == Row("free", JsNum(2), JsNum(FreeWindowSeconds), JsStr(PastExpiry))

ExpiryRows == {FreeRow, ExpiringRow}

InitExpiry ==
    /\ clock = 0
    /\ user \in ExpiryRows
    /\ redis = << >>
    /\ pc = [p \in Procs |-> "idle"]
    /\ loc = [p \in Procs |-> NoLoc]
    /\ nchecks = 0
    /\ nwrites = 0
    /\ bucket = << >>
    /\ lastDecision = NoDecision
    /\ lastStats = NoStats
    /\ updatedAt = 0
    /\ lastUpdate = NoUpdate

NextExpiry ==
    \/ FetchUser(1)
    \/ CheckBegin(1)
    \/ RedisEval(1)
    \/ RedisTtl(1)
    \/ Tick

SpecExpiry == InitExpiry /\ [][NextExpiry]_vars

(***************************************************************************)
(* C24: when an override expires in the middle of a bucket and the tier    *)
(* window equals the override window, later checks use the same counter    *)
(* key and continue from the stored count: what was counted under the      *)
(* override counts against the tier limit, and a check is Allowed as soon  *)
(* as stored count + 1 <= tier limit, even after a RateLimited one.        *)
(***************************************************************************)
\* a check of the user with the expiring override has ended
ExpiringChecked == user = ExpiringRow /\ lastDecision.status # "none"

C24_ContinuesOnSameKey ==
    ExpiringChecked =>
        /\ lastDecision.status \in {"Allowed", "RateLimited"}
        /\ lastDecision.ws = 0
        /\ lastDecision.count = BucketOf(0).evals
        /\ \A p \in Procs :
              (pc[p] = "evalSent" /\ loc[p].now >= PastExpiry /\ loc[p].ws = 0)
                 => loc[p].limit = FreeRequests

\* what happens instead: no check of this user is ever counted or decided
C24_NeverCounted ==
    user = ExpiringRow =>
        /\ redis = << >>
        /\ lastDecision.status \in {"none", "TypeError"}

\* the same continuation does happen where no expiry value is involved: a
\* free user without override is counted and decided on the key of bucket 0
C24_FreeUserCounted ==
    /\ user = FreeRow
    /\ lastDecision.status = "RateLimited"
    /\ lastDecision.ws = 0


(***************************************************************************)
(* C25: incrAndExpire is one atomic step of the counter store: it adds 1   *)
(* to the value at the key (an absent key counts as 0), sets the TTL to    *)
(* ttlSeconds iff the resulting value is 1, and returns the value after    *)
(* the increment; no other client's command comes between the increment    *)
(* and the TTL assignment.                                                 *)
(***************************************************************************)
CountAt(store, key) == IF key \in DOMAIN store THEN store[key].count ELSE 0

\* the value the EVAL of handler p returned to it
EvalReturned(p) ==
    IF pc'[p] = "ttlSent" THEN loc'[p].count ELSE lastDecision'.count

EvalIsIncrAndExpire(p) ==
    LET key == RedisKey(UserId, loc[p].ws)
    IN /\ DOMAIN redis' = DOMAIN redis \cup {key}
       /\ \A k \in DOMAIN redis : k # key => redis'[k] = redis[k]
       /\ redis'[key].count = CountAt(redis, key) + 1
       /\ redis'[key].expireAt =
             IF redis'[key].count = 1
             THEN clock + loc[p].win * MillisPerSecond
             ELSE redis[key].expireAt
       /\ EvalReturned(p) = redis'[key].count
       /\ clock' = clock

C25_IncrAndExpireAtomic ==
    [][\A p \in Procs : RedisEval(p) => EvalIsIncrAndExpire(p)]_vars

\* two clients on one key: the script of one has run at 0, the script of
\* the other runs later; the TTL set by the first increment is kept
C25_Witness ==
    /\ clock = 500
    /\ FirstKey \in DOMAIN redis
    /\ redis[FirstKey].count = 2
    /\ redis[FirstKey].expireAt = FreeWindowSeconds * MillisPerSecond
    /\ \E p \in Procs : pc[p] = "evalSent" /\ loc[p].now = 0


(***************************************************************************)
(* A caller crashes or is cancelled (the fiber of the request is           *)
(* interrupted, the process dies) after it has sent a store command: the   *)
(* store runs an EVAL that was sent, the caller sends nothing more.        *)
(***************************************************************************)
Cancel(p) ==
    /\ pc[p] \in {"evalSent", "ttlSent"}
    /\ LET l == loc[p]
           key == RedisKey(UserId, l.ws)
           b == BucketOf(l.ws)
           runs == pc[p] = "evalSent"
       IN /\ redis' = IF runs
                      THEN incrWithExpireScript(redis, key, l.win, clock, l.limit)
                      ELSE redis
          /\ bucket' = IF runs /\ InBucket(l.ws, l.win, clock)
                       THEN [w \in DOMAIN bucket \cup {l.ws} |->
                               IF w = l.ws
                               THEN [b EXCEPT !.evals = @ + 1,
                                              !.params = @ \cup {<<l.limit, l.win>>}]
                               ELSE bucket[w]]
                       ELSE bucket
          /\ lastDecision' =
               [NoDecision EXCEPT !.status = "Cancelled", !.ws = l.ws,
                                  !.win = l.win,
                                  !.count = IF runs THEN IncrResult(redis, key)
                                            ELSE l.count]
    /\ loc' = [loc EXCEPT ![p] = NoLoc]
    /\ pc' = [pc EXCEPT ![p] = "idle"]
    /\ UNCHANGED <<clock, user, nchecks, nwrites, lastStats, updatedAt,
                   lastUpdate>>

(***************************************************************************)
(* SpecCrash: concurrent checks of a free user whose callers can crash or  *)
(* be cancelled between their store commands.                              *)
(***************************************************************************)
NextCrash ==
    \/ Next
    \/ \E p \in Procs : Cancel(p)

SpecCrash == InitStore /\ [][NextCrash]_vars

(***************************************************************************)
(* C26: in every reachable state, under any interleaving of checks and any *)
(* crash or cancellation of a caller between its store commands, every     *)
(* live rate_limit key has a TTL: ttl never answers -1 for a key the       *)
(* decision engine wrote.                                                  *)
(***************************************************************************)
C26_EveryKeyHasTtl ==
    \A k \in DOMAIN redis :
        /\ redis[k].expireAt # NoExpiry
        /\ Ttl(redis, k, clock) >= 0

\* a caller over the limit was cancelled between its EVAL and its TTL read;
\* the key is live and has its TTL
C26_Witness ==
    /\ lastDecision.status = "Cancelled"
    /\ lastDecision.count > FreeRequests
    /\ RedisKey(UserId, lastDecision.ws) \in DOMAIN redis
    /\ Ttl(redis, RedisKey(UserId, lastDecision.ws), clock) > 0
    /\ \A p \in Procs : pc[p] = "idle"


(***************************************************************************)
(* C27: every check that reaches the counter store increments the counter  *)
(* of its bucket key by exactly 1, whether it is then Allowed or           *)
(* RateLimited; two successive checks in the same bucket (configured tier, *)
(* no override) observe values that differ by exactly 1, and after k       *)
(* checks on a fresh bucket the stored count is k.                         *)
(***************************************************************************)
Decided == lastDecision.status \in {"Allowed", "RateLimited"}

\* C27 as stated, for the check that observed 1: it is the first check the
\* store ran for its bucket
C27_SuccessiveDifferByOne ==
    (Decided /\ lastDecision.count = 1 /\ ~lastDecision.first)
        => BucketOf(lastDecision.ws).evals = 0

\* C27, amended: while the clock is inside a bucket, the count stored at
\* the key of the bucket is the number of checks the store has run for it,
\* the denied ones included.
C27_CountIsChecksInBucket ==
    \A ws \in DOMAIN bucket :
        LET key == RedisKey(UserId, ws)
        IN (key \in DOMAIN redis /\ InBucket(ws, redis[key].window, clock))
              => /\ redis[key].count = bucket[ws].evals
                 /\ bucket[ws].allowed <= bucket[ws].evals

\* twelve checks in the first bucket of a free user: ten allowed, two
\* denied, all twelve counted
C27_Witness ==
    /\ FirstKey \in DOMAIN redis
    /\ InBucket(0, FreeWindowSeconds, clock)
    /\ redis[FirstKey].count = FreeRequests + 2
    /\ BucketOf(0).evals = FreeRequests + 2
    /\ BucketOf(0).allowed = FreeRequests
    /\ lastDecision.status = "RateLimited"
    /\ lastDecision.count = FreeRequests + 2


(***************************************************************************)
(* C28: on the over-budget path retryAfterSeconds is the TTL read from the *)
(* store when that TTL is >= 0, and windowSeconds when it is negative (-2: *)
(* the key expired between the increment and the TTL read; -1: the key has *)
(* no expiry); the path returns RateLimited, never an error.               *)
(***************************************************************************)
C28_RetryAfterOfTtl ==
    [][\A p \in Procs :
         RedisTtl(p) =>
            LET ttl == Ttl(redis, RedisKey(UserId, loc[p].ws), clock)
            IN /\ lastDecision'.status = "RateLimited"
               /\ lastDecision'.ttl = ttl
               /\ ttl >= 0 => lastDecision'.retryAfter = ttl
               /\ ttl < 0 => /\ ttl \in {-1, -2}
                             /\ lastDecision'.retryAfter = loc[p].win]_vars

\* the key expired between the increment and the TTL read
C28_Witness ==
    /\ lastDecision.status = "RateLimited"
    /\ lastDecision.ttl = -2
    /\ lastDecision.retryAfter = FreeWindowSeconds

\* the key has no expiry
C28_WitnessNoExpiry ==
    /\ lastDecision.status = "RateLimited"
    /\ lastDecision.ttl = -1
    /\ lastDecision.retryAfter = FreeWindowSeconds

\* the TTL is read as it is
C28_WitnessTtl ==
    /\ lastDecision.status = "RateLimited"
    /\ lastDecision.ttl > 0
    /\ lastDecision.retryAfter = lastDecision.ttl


(***************************************************************************)
(* SpecKey: the key derivation alone.  Each of two callers reads the clock *)
(* and derives its key for a window; the clock moves between the two       *)
(* readings.                                                               *)
(***************************************************************************)
KeyInstants ==
    {0, 999, 1000, 29999, 30000, 59999, 60000, 89999, 90000, 119999, 120000}

KeyWindows == {1, 30, 60}

InitKey ==
    /\ clock \in KeyInstants
    /\ user = FreeRow
    /\ redis = << >>
    /\ pc = [p \in Procs |-> "idle"]
    /\ loc = [p \in Procs |-> NoLoc]
    /\ nchecks = 0
    /\ nwrites = 0
    /\ bucket = << >>
    /\ lastDecision = NoDecision
    /\ lastStats = NoStats
    /\ updatedAt = 0
    /\ lastUpdate = NoUpdate

\* const nowMillis = Date.now(); ...; const redisKey = ...
DeriveKey(p, windowSeconds) ==
    /\ pc[p] = "idle"
    /\ loc' = [loc EXCEPT ![p] =
                 [NoLoc EXCEPT !.now = clock, !.win = windowSeconds,
                               !.ws = WindowStartSeconds(clock, windowSeconds)]]
    /\ pc' = [pc EXCEPT ![p] = "evalSent"]
    /\ UNCHANGED <<clock, user, redis, nchecks, nwrites, bucket, lastDecision,
                   lastStats, updatedAt, lastUpdate>>

\* now + delta
KeyTick ==
    /\ \E t \in KeyInstants : t > clock /\ clock' = t
    /\ UNCHANGED <<user, redis, pc, loc, nchecks, nwrites, bucket, lastDecision,
                   lastStats, updatedAt, lastUpdate>>

NextKey ==
    \/ \E p \in Procs, w \in KeyWindows : DeriveKey(p, w)
    \/ KeyTick

SpecKey == InitKey /\ [][NextKey]_vars

(***************************************************************************)
(* C29: for a fixed user and windowSeconds and all now and delta, the key  *)
(* derived at now equals the key derived at now + delta iff                *)
(* floor((now+delta)/1000/windowSeconds) = floor(now/1000/windowSeconds);  *)
(* the key is rate_limit:<userId>:<floor(nowSeconds/windowSeconds) *       *)
(* windowSeconds>.                                                         *)
(***************************************************************************)
KeyDerived(p) == pc[p] = "evalSent"

KeyOf(p) == RedisKeyText(UserId, loc[p].ws)

\* floor(now / 1000 / windowSeconds)
BucketIndex(nowMillis, windowSeconds) ==
    nowMillis \div (MillisPerSecond * windowSeconds)

C29_SameKeyIffSameBucket ==
    /\ \A p \in Procs :
         KeyDerived(p) =>
            KeyOf(p) = <<"rate_limit", ":", UserId, ":">> \o
                         NumberToString(((loc[p].now \div MillisPerSecond)
                                            \div loc[p].win) * loc[p].win)
    /\ \A p, q \in Procs :
         (KeyDerived(p) /\ KeyDerived(q) /\ loc[p].win = loc[q].win)
            => ((KeyOf(p) = KeyOf(q))
                  <=> (BucketIndex(loc[p].now, loc[p].win)
                         = BucketIndex(loc[q].now, loc[q].win)))

\* two readings 1 ms apart fall into different buckets, two readings
\* almost a window apart into the same one
C29_Witness ==
    /\ KeyDerived(1) /\ KeyDerived(2)
    /\ loc[1].win = 30 /\ loc[2].win = 30
    /\ loc[1].now = 29999 /\ loc[2].now = 30000
    /\ KeyOf(1) = <<"rate_limit", ":", UserId, ":", "0">>
    /\ KeyOf(2) = <<"rate_limit", ":", UserId, ":", "3", "0">>

C29_WitnessSameBucket ==
    /\ KeyDerived(1) /\ KeyDerived(2)
    /\ loc[1].win = 60 /\ loc[2].win = 60
    /\ loc[1].now = 60000 /\ loc[2].now = 119999
    /\ KeyOf(1) = KeyOf(2)


(***************************************************************************)
(* C30: for every user record as the user store returns it and every now,  *)
(* the stats projector resolves the same (limit, windowSeconds,            *)
(* override-active) and derives the same counter key as the decision       *)
(* engine; both treat a complete, unexpired override alike.                *)
(***************************************************************************)
CheckResolved == lastDecision.status \in {"Allowed", "RateLimited"}

StatsResolved == lastStats.status = "ok"

\* a check and a stats read of the record have both ended (in SpecResolver
\* the record and the clock do not change)
BothEnded == lastDecision.status # "none" /\ lastStats.status # "none"

SameResolution ==
    /\ CheckResolved <=> StatsResolved
    /\ (CheckResolved /\ StatsResolved) =>
          /\ lastDecision.limit = lastStats.limit
          /\ lastDecision.win = lastStats.win
          /\ RedisKeyText(UserId, lastDecision.ws) = RedisKeyText(UserId, lastStats.ws)
    /\ ~CheckResolved => lastDecision.status = lastStats.status

C30_StatsResolvesAsCheck == BothEnded => SameResolution

\* the part of C30 that holds: records whose expiry column is null
C30_NullExpiryPart ==
    (BothEnded /\ user.override_limit_expiry = JsNull) => SameResolution

\* what the two do with a complete, unexpired override: the stats read
\* reports it active, the check dies on the expiry value
C30_ActiveOverrideDiffers ==
    (BothEnded /\ OverrideIsActive(user, clock)
       /\ user.override_limit_window_seconds.v > 0)
          => /\ StatsResolved /\ lastStats.overrideActive
             /\ lastDecision.status = "TypeError"

C30_ActiveOverrideReached ==
    /\ BothEnded
    /\ OverrideIsActive(user, clock)
    /\ user.override_limit_window_seconds.v > 0


(***************************************************************************)
(* SpecRetry: one client of a free user checks again and again; its TTL    *)
(* read can fail and the client can be cancelled after a store command was *)
(* sent.  The counter store starts empty or with the counter of the first  *)
(* bucket already over the limit.                                          *)
(***************************************************************************)
InitRetry ==
    /\ clock = 0
    /\ user = FreeRow
    /\ redis \in WriterStores
    /\ pc = [p \in Procs |-> "idle"]
    /\ loc = [p \in Procs |-> NoLoc]
    /\ nchecks = 0
    /\ nwrites = 0
    /\ bucket = << >>
    /\ lastDecision = NoDecision
    /\ lastStats = NoStats
    /\ updatedAt = 0
    /\ lastUpdate = NoUpdate

NextRetry ==
    \/ FetchUser(1)
    \/ CheckBegin(1)
    \/ RedisEval(1)
    \/ RedisTtl(1)
    \/ RedisTtlFails(1)
    \/ Cancel(1)
    \/ Tick

SpecRetry == InitRetry /\ [][NextRetry]_vars

(***************************************************************************)
(* C31: once incrAndExpire has returned the increment stands: if the       *)
(* caller is cancelled, or the following TTL read fails on the over-budget *)
(* path, the check ends without a decision, the counter keeps the          *)
(* incremented value (no rollback), and a retry is counted again.          *)
(***************************************************************************)
\* handler p ends after its increment without a decision
EndsAfterIncrement(p) ==
    pc[p] = "ttlSent" /\ (RedisTtlFails(p) \/ Cancel(p))

C31_IncrementStands ==
    [][\A p \in Procs :
         /\ EndsAfterIncrement(p) =>
               /\ redis' = redis
               /\ lastDecision'.status \notin {"Allowed", "RateLimited"}
               /\ pc'[p] = "idle"
               /\ RedisKey(UserId, loc[p].ws) \in DOMAIN redis =>
                     redis'[RedisKey(UserId, loc[p].ws)].count = loc[p].count
         /\ RedisEval(p) =>
               redis'[RedisKey(UserId, loc[p].ws)].count
                  = CountAt(redis, RedisKey(UserId, loc[p].ws)) + 1]_vars

\* two checks on a counter that stood at StoredCount: the TTL read of the
\* second failed, and both are counted
C31_Witness ==
    /\ lastDecision.status = "RedisError"
    /\ nchecks = 2
    /\ pc[1] = "idle"
    /\ FirstKey \in DOMAIN redis
    /\ redis[FirstKey].count = StoredCount + 2

\* the same after a cancellation between the increment and the TTL read
C31_WitnessCancelled ==
    /\ lastDecision.status = "Cancelled"
    /\ nchecks = 2
    /\ pc[1] = "idle"
    /\ FirstKey \in DOMAIN redis
    /\ redis[FirstKey].count = StoredCount + 2


(***************************************************************************)
(* C32: for every check at time t that uses key k with resolved window W,  *)
(* k stays live at least until the end of that bucket (windowStart + W):   *)
(* the counter is never reset by TTL expiry in the middle of a bucket,     *)
(* also when the effective window of the user has changed since k was      *)
(* created.                                                                *)
(***************************************************************************)
\* the end of the bucket of a key for a window, in ms
BucketEnd(ws, windowSeconds) == (ws + windowSeconds) * MillisPerSecond

WaitStarts == {0, 600, 59600}

WaitedStatus(extra) == IF extra = 0 THEN "WaitedRetryAfter" ELSE "WaitedLonger"

Wait(p, extra) ==
    /\ pc[p] = "idle"
    /\ lastDecision.status = "RateLimited"
    /\ LET t == clock + (lastDecision.retryAfter + extra) * MillisPerSecond
       IN /\ clock' = t
          /\ redis' = [k \in DOMAIN redis \ Expired(redis, t) |-> redis[k]]
    /\ lastDecision' = [lastDecision EXCEPT !.status = WaitedStatus(extra)]
    /\ UNCHANGED <<user, pc, loc, nchecks, nwrites, bucket, lastStats, updatedAt,
                   lastUpdate>>

InitWait ==
    /\ clock \in WaitStarts
    /\ user = FreeRow
    /\ redis \in WriterStores
    /\ pc = [p \in Procs |-> "idle"]
    /\ loc = [p \in Procs |-> NoLoc]
    /\ nchecks = 0
    /\ nwrites = 0
    /\ bucket = << >>
    /\ lastDecision = NoDecision
    /\ lastStats = NoStats
    /\ updatedAt = 0
    /\ lastUpdate = NoUpdate

NextWait ==
    \/ FetchUser(1)
    \/ CheckBegin(1)
    \/ RedisEval(1)
    \/ RedisTtl(1)
    \/ Wait(1, 0)
    \/ Wait(1, 1)

SpecWait == InitWait /\ [][NextWait]_vars

\* the response to the check that follows a wait
AnsweredAfter(waited) ==
    /\ lastDecision.status = waited
    /\ lastDecision'.status # waited

(***************************************************************************)
(* C33: a client that receives RateLimited{r}, waits r seconds and then    *)
(* calls check again, with limit >= 1, limit and window unchanged and no   *)
(* other caller for that user in between, receives Allowed.                *)
(***************************************************************************)
C33_AllowedAfterRetryAfter ==
    [][AnsweredAfter("WaitedRetryAfter") => lastDecision'.status = "Allowed"]_vars

\* what holds: the same after a wait of r + 1 seconds
C33_AllowedAfterRetryAfterPlusOne ==
    [][AnsweredAfter("WaitedLonger") => lastDecision'.status = "Allowed"]_vars

\* the retry after a wait of 59 + 1 seconds from 0.6 s is the first check
\* of bucket 60
C33_Witness ==
    /\ clock = 60600
    /\ lastDecision.status = "Allowed"
    /\ lastDecision.ws = 60
    /\ lastDecision.count = 1
    /\ lastDecision.first

\* the retry after a wait of exactly r = 59 seconds from 0.6 s: the key of
\* bucket 0, created at 0 s, is live for 0.4 s more
C33_WitnessStillLimited ==
    /\ clock = 59600
    /\ lastDecision.status = "RateLimited"
    /\ lastDecision.ws = 0
    /\ lastDecision.count = StoredCount + 2
    /\ lastDecision.retryAfter = 0


(***************************************************************************)
(* SpecSnapshot: the stats handler of one request beside the checks of     *)
(* another, for a free user and a counter store that starts empty, while   *)
(* time passes and keys expire.                                            *)
(***************************************************************************)
NextSnapshot ==
    \/ StatsFetch(1)
    \/ StatsBegin(1)
    \/ StatsGet(1)
    \/ StatsTtl(1)
    \/ FetchUser(2)
    \/ CheckBegin(2)
    \/ RedisEval(2)
    \/ RedisTtl(2)
    \/ Tick

SpecSnapshot == InitStore /\ [][NextSnapshot]_vars

\* the body of the last stats response
StatsBody == StatsResponse(lastStats).body.value

(***************************************************************************)
(* C34: the stats projector reports a consistent snapshot under concurrent *)
(* checks and TTL expiry: in every stats response, currentCount = 0 if and *)
(* only if secondsUntilReset = -2, and currentCount >= 1 implies           *)
(* secondsUntilReset >= 0.                                                 *)
(***************************************************************************)
C34_ConsistentSnapshot ==
    lastStats.status = "ok" =>
        /\ StatsBody.currentCount = 0 <=> StatsBody.secondsUntilReset = -2
        /\ StatsBody.currentCount >= 1 => StatsBody.secondsUntilReset >= 0

\* the key expired between the GET and the TTL of one stats request
C34_CountOfExpiredKey ==
    /\ lastStats.status = "ok"
    /\ StatsBody.currentCount >= 1
    /\ StatsBody.secondsUntilReset = -2

\* a check created the key between the GET and the TTL of one stats request
C34_TtlOfUncountedKey ==
    /\ lastStats.status = "ok"
    /\ StatsBody.currentCount = 0
    /\ StatsBody.secondsUntilReset = FreeWindowSeconds

\* each of the two values taken alone is one the store held at its read
C34_EachValueAlone ==
    lastStats.status = "ok" =>
        /\ StatsBody.currentCount \in 0..MaxChecks
        /\ StatsBody.secondsUntilReset \in {-2} \cup 0..FreeWindowSeconds


(***************************************************************************)
(* SpecLive: the concurrent checks of a free user under a wall clock that  *)
(* keeps advancing: the clock is not stopped by the requests, so the step  *)
(* of time is taken whenever it stays possible.                            *)
(***************************************************************************)
SpecLive == InitStore /\ [][Next]_vars /\ WF_vars(Tick)

\* the last instant of the clock, and the keys and expiry instants up to it
Horizon == 60500

HorizonKeys == {RedisKey(UserId, WindowStartSeconds(t, FreeWindowSeconds)) : t \in Instants}

\* the instant at which a live key was created: its TTL was set then, to
\* the window of the creating check
CreatedAt(k) == redis[k].expireAt - redis[k].window * MillisPerSecond

(***************************************************************************)
(* C35: every counter key eventually returns to empty: as wall-clock time  *)
(* advances, a key created by incrAndExpire is removed by TTL expiry no    *)
(* later than windowSeconds after its creation, even when checks keep      *)
(* incrementing it without pause, because increments never extend the TTL  *)
(* and nothing else writes the key.                                        *)
(***************************************************************************)
C35_KeyReturnsToEmpty ==
    /\ [](\A k \in DOMAIN redis :
            /\ redis[k].expireAt # NoExpiry
            /\ CreatedAt(k) \in Instants
            /\ CreatedAt(k) <= clock
            /\ clock < CreatedAt(k) + redis[k].window * MillisPerSecond)
    /\ [][\A k \in DOMAIN redis \cap DOMAIN redis' :
            /\ redis'[k].expireAt = redis[k].expireAt
            /\ redis'[k].count >= redis[k].count]_vars
    /\ \A k \in HorizonKeys :
          (k \in DOMAIN redis /\ redis[k].expireAt <= Horizon)
              ~> (k \notin DOMAIN redis)

\* the key of bucket 0, incremented by several checks, is gone at 60 s
C35_Witness ==
    /\ clock >= 60000
    /\ 0 \in DOMAIN bucket
    /\ bucket[0].evals >= 3
    /\ FirstKey \notin DOMAIN redis

=============================================================================
